---- MODULE Spec2Model ----
(***************************************************************************)
(* Versioned dataset-package manager of data_common                         *)
(* (src/src/data_common/dataset): the SemVer engine, the bump-rule          *)
(* inference of DataPackage.derive_bump_rule_from_change, the version bump  *)
(* (bump_version_to / bump_version_on_rule), the build pipeline and the     *)
(* command line loops over several packages (publish, validate, version).   *)
(*                                                                          *)
(* A package is a directory: a function from file names to file contents.   *)
(* A version string is the record [nums, pre]: the dot-separated numeric    *)
(* components before any "-" and the pre-release tag after it ("" when      *)
(* there is none), so "1.0" is [nums |-> <<1,0>>, pre |-> ""] and           *)
(* "1.0.0-beta" is [nums |-> <<1,0,0>>, pre |-> "beta"].                    *)
(* A Python exception is the outcome "raise" of a handler.                  *)
(***************************************************************************)
EXTENDS Integers, Sequences, FiniteSets, TLC

VARIABLES
    pkg,      \* the package on disk: [dir, versions, built, tests]
    last,     \* the last call made and how it ended
    nedits,   \* number of edits the operator may still make
    ncalls,   \* number of program calls that may still be made
    batch     \* the other packages of settings["dataset_dir"], after pkg

vars == <<pkg, last, nedits, ncalls, batch>>

\* ---------------------------------------------------------------- bounds
MaxEdits == 1       \* edits of the operator in the life of a package
MaxDiffs == 2       \* edits of the operator between a snapshot and the inference
MaxCalls == 1       \* calls that bump or build in one run
MaxNum == 2         \* largest numeric component of a version
MaxFields == 3      \* longest field list of a resource
MaxResources == 2   \* resource slugs 1..MaxResources
MaxSnapshots == 2   \* directories under versions/
MaxPackages == 2    \* packages in the dataset directory, for the command line
MaxBumps == 2       \* manual bumps in a row
MaxPart == 1        \* largest numeric component of an input of the SemVer engine
MaxVersions == 3    \* longest list of versions given to the SemVer engine
MaxBuilds == 2      \* builds in a row

\* ------------------------------------------------------------ small helpers
Range(s) == {s[i] : i \in DOMAIN s}

Min(S) == CHOOSE x \in S : \A y \in S : x <= y

RemoveAt(s, i) == SubSeq(s, 1, i - 1) \o SubSeq(s, i + 1, Len(s))

SwapAt(s, i) == [k \in DOMAIN s |-> IF k = i THEN s[i + 1] ELSE IF k = i + 1 THEN s[i] ELSE s[k]]

\* Python's None and the empty dict {} returned by get_resource without a sidecar
None == [none |-> TRUE]

EmptyDict == [empty |-> TRUE]

\* ------------------------------------------------------------ SemVer engine
V(a, b, c) == [nums |-> <<a, b, c>>, pre |-> ""]

Pre(a, b, c, tag) == [nums |-> <<a, b, c>>, pre |-> tag]

\* the regex of parse_semver: exactly three numeric components, optional tag
parse_semver(version_string) ==
    IF Len(version_string.nums) = 3
    THEN [major |-> version_string.nums[1], minor |-> version_string.nums[2],
          patch |-> version_string.nums[3], prerelease |-> version_string.pre]
    ELSE None

is_valid_semver(semver) == parse_semver(semver) # None

\* a comparison that takes an equal triple for a higher one
SemverIsHigherOrEqual(semver1, semver2) ==
    /\ parse_semver(semver1) # None
    /\ parse_semver(semver2) # None
    /\ \/ parse_semver(semver2).major > parse_semver(semver1).major
       \/ /\ parse_semver(semver2).major = parse_semver(semver1).major
          /\ parse_semver(semver2).minor > parse_semver(semver1).minor
       \/ /\ parse_semver(semver2).major = parse_semver(semver1).major
          /\ parse_semver(semver2).minor = parse_semver(semver1).minor
          /\ parse_semver(semver2).patch >= parse_semver(semver1).patch

semver_is_higher(semver1, semver2) ==
    LET semver1_dict == parse_semver(semver1)
        semver2_dict == parse_semver(semver2)
    IN  IF semver1_dict = None \/ semver2_dict = None THEN FALSE
        ELSE IF semver2_dict.major > semver1_dict.major THEN TRUE
        ELSE IF semver2_dict.major = semver1_dict.major
                /\ semver2_dict.minor > semver1_dict.minor THEN TRUE
        ELSE IF semver2_dict.major = semver1_dict.major
                /\ semver2_dict.minor = semver1_dict.minor
                /\ semver2_dict.patch > semver1_dict.patch THEN TRUE
        ELSE FALSE

\* bump_version: the joined "major.minor.patch" drops any pre-release tag; None
\* stands for the ValueError of an invalid semver or an invalid choice
bump_version(semver, choice) ==
    LET parts == parse_semver(semver)
    IN  IF parts = None THEN None
        ELSE IF choice = "major" THEN V(parts.major + 1, 0, 0)
        ELSE IF choice = "minor" THEN V(parts.major, parts.minor + 1, 0)
        ELSE IF choice = "patch" THEN V(parts.major, parts.minor, parts.patch + 1)
        ELSE None

\* str.lower() on the rule names
Lower(rule) ==
    CASE rule = "MAJOR" -> "major"
      [] rule = "MINOR" -> "minor"
      [] rule = "PATCH" -> "patch"
      [] OTHER -> rule

\* ---------------------------------------------------------- files of a package
ManifestFile == [slug |-> 0, kind |-> "datapackage.yaml"]

DataFile(slug) == [slug |-> slug, kind |-> "csv"]

SidecarFile(slug) == [slug |-> slug, kind |-> "resource.yaml"]

Slugs == 1 .. MaxResources

\* hashlib.md5(bytes).hexdigest(): the digest of the file's bytes
md5(bytes) == <<"md5", bytes>>

\* DataPackage.get_datapackage
get_datapackage(dir) == dir[ManifestFile]

\* DataPackage.get_current_version: "1.0" is read as "1.0.0"
get_current_version(dir) ==
    LET version == get_datapackage(dir).version
    IN  IF Len(version.nums) = 2
        THEN [version EXCEPT !.nums = Append(version.nums, 0)]
        ELSE version

\* DataResource.get_resource
get_resource(dir, slug) ==
    IF SidecarFile(slug) \in DOMAIN dir THEN dir[SidecarFile(slug)] ELSE EmptyDict

\* DataResource.get_order
get_order(dir, slug) ==
    LET desc == get_resource(dir, slug)
    IN  IF desc = EmptyDict \/ desc.sheet_order = 0 THEN 999 ELSE desc.sheet_order

\* the two stable sorts of DataPackage.resources: by sheet order, then by slug
RECURSIVE SortResources(_, _)
SortResources(dir, S) ==
    IF S = {} THEN <<>>
    ELSE LET first == CHOOSE s \in S : \A t \in S :
                          \/ get_order(dir, s) < get_order(dir, t)
                          \/ (get_order(dir, s) = get_order(dir, t) /\ s <= t)
         IN  <<first>> \o SortResources(dir, S \ {first})

\* DataPackage.resources: the slugs of the data files, in order
resources(dir) == SortResources(dir, {s \in Slugs : DataFile(s) \in DOMAIN dir})

\* DataPackage.get_current_datapackage_json
get_current_datapackage_json(dir) ==
    LET datapackage == get_datapackage(dir)
        order == resources(dir)
    IN  [k \in (DOMAIN datapackage) \cup {"resources"} |->
            IF k = "resources"
            THEN [i \in DOMAIN order |-> get_resource(dir, order[i])]
            ELSE datapackage[k]]

\* del data["custom"]
DelCustom(data) == [k \in (DOMAIN data) \ {"custom"} |-> data[k]]

\* ------------------------------------------------ bump-rule inference
\* the outcomes of derive_bump_rule_from_change
Return(rule, reason, names) ==
    [out |-> "return", rule |-> rule, reason |-> reason, names |-> names]

ReturnNone == [out |-> "none"]

Raise(error) == [out |-> "raise", error |-> error]

Pass == [out |-> "pass"]

FieldNames(resource) == [i \in DOMAIN resource.fields |-> resource.fields[i].name]

NameAndType(resource) == {<<f.name, f.type>> : f \in Range(resource.fields)}

\* a check of the field names that takes new fields anywhere for fields at the end
CheckFieldNamesAnywhere(previous_resource, current_resource, MAJOR, MINOR) ==
    LET previous_field_names == FieldNames(previous_resource)
        current_field_names == FieldNames(current_resource)
        new_fields == Range(current_field_names) \ Range(previous_field_names)
    IN  IF Range(previous_field_names) # Range(current_field_names)
        THEN IF Len(previous_field_names) > Len(current_field_names)
             THEN Return(MAJOR, "Existing resource field(s) removed",
                         Range(previous_field_names) \ Range(current_field_names))
             ELSE IF Len(previous_field_names) < Len(current_field_names)
             THEN Return(MINOR, "New field(s) added to end of resource", new_fields)
             ELSE Pass
        ELSE Pass

\* lines 529-554: field names added or removed
CheckFieldNames(previous_resource, current_resource, MAJOR, MINOR) ==
    LET previous_field_names == FieldNames(previous_resource)
        current_field_names == FieldNames(current_resource)
        new_fields == Range(current_field_names) \ Range(previous_field_names)
    IN  IF Range(previous_field_names) # Range(current_field_names)
        THEN IF Len(previous_field_names) > Len(current_field_names)
             THEN Return(MAJOR, "Existing resource field(s) removed",
                         Range(previous_field_names) \ Range(current_field_names))
             ELSE IF Len(previous_field_names) < Len(current_field_names)
             THEN IF SubSeq(current_field_names, 1, Len(previous_field_names))
                        = previous_field_names
                  THEN Return(MINOR, "New field(s) added to end of resource", new_fields)
                  ELSE Return(MAJOR, "New field(s) added to resource", new_fields)
             ELSE Pass
        ELSE Pass

\* lines 556-574: is a field type changed?
CheckFieldTypes(previous_resource, current_resource, MAJOR) ==
    IF NameAndType(previous_resource) # NameAndType(current_resource)
    THEN Return(MAJOR, "Existing resource field(s) type changed",
                {x[1] : x \in NameAndType(current_resource) \ NameAndType(previous_resource)})
    ELSE Pass

\* lines 499-574, one turn of the loop over the previous resources
CheckResource(previous_resource, current_resources, MAJOR, MINOR) ==
    IF previous_resource = EmptyDict \/ EmptyDict \in Range(current_resources)
    THEN Raise("KeyError")
    ELSE LET current_resource ==
                 SelectSeq(current_resources, LAMBDA x : x.name = previous_resource.name)
         IN  IF Len(current_resource) = 0
             THEN Return(MAJOR, "Existing resource renamed or deleted",
                         {previous_resource.name})
             ELSE IF previous_resource.sheet_order # current_resource[1].sheet_order
             THEN Return(MAJOR, "Sheet order changed for resource",
                         {previous_resource.name})
             ELSE LET names == CheckFieldNames(previous_resource, current_resource[1],
                                               MAJOR, MINOR)
                  IN  IF names # Pass THEN names
                      ELSE CheckFieldTypes(previous_resource, current_resource[1], MAJOR)

\* the loop of lines 499-574: the first resource that returns ends it
RECURSIVE CheckResources(_, _, _, _, _)
CheckResources(previous_resources, current_resources, i, MAJOR, MINOR) ==
    IF i > Len(previous_resources) THEN Pass
    ELSE LET r == CheckResource(previous_resources[i], current_resources, MAJOR, MINOR)
         IN  IF r # Pass THEN r
             ELSE CheckResources(previous_resources, current_resources, i + 1, MAJOR, MINOR)

\* a decision list without the rule on the licence
CheckLicenceSkipped(previous_data, current_data, MAJOR) == Pass

\* lines 576-580
CheckLicence(previous_data, current_data, MAJOR) ==
    IF previous_data.licenses # current_data.licenses
    THEN Return(MAJOR, "License changed", {})
    ELSE Pass

\* lines 589-597
CheckNewResources(previous_data, current_data, MINOR) ==
    IF Len(previous_data.resources) < Len(current_data.resources)
    THEN IF EmptyDict \in Range(current_data.resources)
         THEN Raise("KeyError")
         ELSE Return(MINOR, "New resource(s) added",
                     {x.name : x \in Range(current_data.resources)
                                     \ Range(previous_data.resources)})
    ELSE Pass

ByName(resource_list, name) == (CHOOSE x \in Range(resource_list) : x.name = name)

\* a decision list without the rule on row counts
CheckRowCountsSkipped(previous_data, current_data, MINOR) == Pass

\* lines 601-612
CheckRowCounts(previous_data, current_data, MINOR) ==
    LET different_counts ==
            {x.name : x \in {p \in Range(previous_data.resources) :
                p.row_count # ByName(current_data.resources, p.name).row_count}}
    IN  IF different_counts # {}
        THEN Return(MINOR, "Change in data for resource(s)", different_counts)
        ELSE Pass

\* lines 626-636
CheckHashes(previous_data, current_data, PATCH) ==
    LET different_hash_values ==
            {x.name : x \in {p \in Range(previous_data.resources) :
                p.hash # ByName(current_data.resources, p.name).hash}}
    IN  IF different_hash_values # {}
        THEN Return(PATCH, "Minor change in data for resource(s)", different_hash_values)
        ELSE Pass

package_level_descriptive_variables ==
    <<"title", "description", "keywords", "sources", "contributors">>

resource_level_description_variables == <<"title", "description", "keywords">>

field_schema_level_description_variables == <<"description", "example">>

\* the first variable of the list on which the two dicts differ, as a set
FirstDifferent(variables, previous, current) ==
    LET different == {i \in DOMAIN variables :
                         previous[variables[i]] # current[variables[i]]}
    IN  IF different = {} THEN {} ELSE {variables[Min(different)]}

\* lines 639-653
CheckPackageDescriptions(previous_data, current_data, PATCH) ==
    LET changed == FirstDifferent(package_level_descriptive_variables,
                                  previous_data, current_data)
    IN  IF changed # {} THEN Return(PATCH, "package variable changed", changed) ELSE Pass

FieldByName(resource, name) == (CHOOSE f \in Range(resource.fields) : f.name = name)

\* lines 673-688: the fields of one resource, variable by variable
FieldDescriptionsDiffer(previous_resource, current_resource) ==
    \E i \in DOMAIN field_schema_level_description_variables :
        \E previous_field \in Range(previous_resource.fields) :
            previous_field[field_schema_level_description_variables[i]]
                # FieldByName(current_resource, previous_field.name)
                      [field_schema_level_description_variables[i]]

\* lines 658-688, the loop over the previous resources
RECURSIVE CheckResourceDescriptions(_, _, _, _)
CheckResourceDescriptions(previous_data, current_data, i, PATCH) ==
    IF i > Len(previous_data.resources) THEN Pass
    ELSE LET previous_resource == previous_data.resources[i]
             current_resource == ByName(current_data.resources, previous_resource.name)
             changed == FirstDifferent(resource_level_description_variables,
                                       previous_resource, current_resource)
         IN  IF changed # {}
             THEN Return(PATCH, "resource variable changed", {current_resource.name})
             ELSE IF FieldDescriptionsDiffer(previous_resource, current_resource)
             THEN Return(PATCH, "field variable changed", {current_resource.name})
             ELSE CheckResourceDescriptions(previous_data, current_data, i + 1, PATCH)

\* an inference that reports "no change" whatever is left of the two documents
CheckIdenticalSilent(previous_data, current_data) == ReturnNone

\* lines 690-697
CheckIdentical(previous_data, current_data) ==
    IF current_data # previous_data THEN Raise("ValueError") ELSE ReturnNone

\* lines 484-697: the decision list over the two documents
CompareData(previous_data, current_data, MAJOR, MINOR, PATCH) ==
    IF previous_data.name # current_data.name
    THEN Return(MAJOR, "Datapackage name changed", {})
    ELSE IF previous_data.identifier # current_data.identifier
    THEN Return(MAJOR, "Datapackage identifier changed", {})
    ELSE LET loop == CheckResources(previous_data.resources, current_data.resources,
                                    1, MAJOR, MINOR)
             licence == CheckLicence(previous_data, current_data, MAJOR)
             added == CheckNewResources(previous_data, current_data, MINOR)
             rows == CheckRowCounts(previous_data, current_data, MINOR)
             hashes == CheckHashes(previous_data, current_data, PATCH)
             package == CheckPackageDescriptions(previous_data, current_data, PATCH)
             described == CheckResourceDescriptions(previous_data, current_data, 1, PATCH)
         IN  IF loop # Pass THEN loop
             ELSE IF licence # Pass THEN licence
             ELSE IF added # Pass THEN added
             ELSE IF rows # Pass THEN rows
             ELSE IF hashes # Pass THEN hashes
             ELSE IF package # Pass THEN package
             ELSE IF described # Pass THEN described
             ELSE CheckIdentical(previous_data, current_data)

\* lines 458-461: below version 1 every major change is a minor one
MajorRule(version) ==
    LET parsed_version == parse_semver(version)
    IN  IF parsed_version # None /\ parsed_version.major < 1 THEN "MINOR" ELSE "MAJOR"

\* an inference that takes every package without snapshot for a first version
DeriveInitialWithoutSnapshot(P) ==
    LET version == get_current_version(P.dir)
        MAJOR == MajorRule(version)
    IN  IF version \notin DOMAIN P.versions
        THEN Return("INITIAL", "Don't need to increment, first version", {})
        ELSE IF ManifestFile \notin DOMAIN P.versions[version]
        THEN Raise("ValueError")
        ELSE CompareData(DelCustom(get_current_datapackage_json(P.versions[version])),
                         DelCustom(get_current_datapackage_json(P.dir)),
                         MAJOR, "MINOR", "PATCH")

\* DataPackage.derive_bump_rule_from_change
derive_bump_rule_from_change(P) ==
    LET version == get_current_version(P.dir)
        MAJOR == MajorRule(version)
    IN  IF version \notin DOMAIN P.versions
        THEN IF version = V(0, 1, 0)
             THEN Return("INITIAL", "Don't need to increment, first version", {})
             ELSE Raise("ValueError")
        ELSE IF ManifestFile \notin DOMAIN P.versions[version]
        THEN Raise("ValueError")
        ELSE CompareData(DelCustom(get_current_datapackage_json(P.versions[version])),
                         DelCustom(get_current_datapackage_json(P.dir)),
                         MAJOR, "MINOR", "PATCH")

\* ------------------------------------------------------ schema regeneration
\* get_descriptions_from_schema, looked up for one field name
DescriptionOf(existing_schema, name) ==
    LET known == {i \in DOMAIN existing_schema : existing_schema[i].name = name}
    IN  IF known = {} THEN "" ELSE existing_schema[Min(known)].description

\* update_table_schema: the columns of the file, with the descriptions kept
update_table_schema(data, existing_schema) ==
    [i \in DOMAIN data.cols |->
        [name |-> data.cols[i].name, type |-> data.cols[i].type,
         description |-> DescriptionOf(existing_schema, data.cols[i].name),
         example |-> data.cols[i].example]]

\* lines 222-228: the example of a geometry column is blanked
DropGeometryExample(fields, is_geodata) ==
    [i \in DOMAIN fields |->
        IF is_geodata /\ fields[i].name = "geometry"
        THEN [fields[i] EXCEPT !.example = 0]
        ELSE fields[i]]

\* a rebuild that writes the title the sidecar had as its description and the
\* description as its title
RebuildYamlSwapping(dir, slug, is_geodata) ==
    LET existing_desc == get_resource(dir, slug)
        data == dir[DataFile(slug)]
        kept == IF existing_desc = EmptyDict
                THEN [name |-> slug, title |-> "", description |-> "", keywords |-> "",
                      sheet_order |-> 0, fields |-> <<>>]
                ELSE existing_desc
    IN  (SidecarFile(slug) :>
            [name |-> kept.name, title |-> kept.description, description |-> kept.title,
             keywords |-> kept.keywords, sheet_order |-> kept.sheet_order,
             fields |-> update_table_schema(data, kept.fields),
             row_count |-> data.rows, hash |-> md5(data.bytes)]) @@ dir

\* DataResource.rebuild_yaml: the sidecar written for the data file of slug
rebuild_yaml(dir, slug, is_geodata) ==
    LET existing_desc == get_resource(dir, slug)
        data == dir[DataFile(slug)]
        kept == IF existing_desc = EmptyDict
                THEN [name |-> slug, title |-> "", description |-> "", keywords |-> "",
                      sheet_order |-> 0, fields |-> <<>>]
                ELSE existing_desc
        new_dict == [name |-> kept.name, title |-> kept.title,
                     description |-> kept.description, keywords |-> kept.keywords,
                     sheet_order |-> kept.sheet_order,
                     fields |-> DropGeometryExample(
                                    update_table_schema(data, kept.fields), is_geodata),
                     row_count |-> data.rows,
                     hash |-> md5(data.bytes)]
    IN  (SidecarFile(slug) :> new_dict) @@ dir

is_geodata(dir) == get_datapackage(dir).custom.is_geodata

\* DataPackage.rebuild_all_resources
RECURSIVE RebuildEach(_, _, _)
RebuildEach(dir, order, i) ==
    IF i > Len(order) THEN dir
    ELSE RebuildEach(rebuild_yaml(dir, order[i], is_geodata(dir)), order, i + 1)

rebuild_all_resources(dir) == RebuildEach(dir, resources(dir), 1)

\* ------------------------------------------------------------- validation
\* DataResource.validate_descriptions
validate_descriptions(dir, slug) ==
    LET desc == get_resource(dir, slug)
    IN  IF desc = EmptyDict THEN "Missing schema"
        ELSE IF desc.title = "" \/ desc.description = ""
                \/ \E f \in Range(desc.fields) : f.description = ""
        THEN "Missing"
        ELSE ""

\* frictionless validate(resource_path), a collaborator: it reports an error when
\* the declared fields are not the columns of the data file
FrictionlessErrors(dir, slug) ==
    LET desc == get_resource(dir, slug)
        data == dir[DataFile(slug)]
    IN  IF [i \in DOMAIN desc.fields |-> <<desc.fields[i].name, desc.fields[i].type>>]
           = [i \in DOMAIN data.cols |-> <<data.cols[i].name, data.cols[i].type>>]
        THEN 0 ELSE 1

\* DataResource.get_status, its colour
get_status(dir, slug) ==
    IF SidecarFile(slug) \notin DOMAIN dir THEN "red"
    ELSE IF validate_descriptions(dir, slug) # "" THEN "red"
    ELSE IF FrictionlessErrors(dir, slug) > 0 THEN "red"
    ELSE "green"

\* DataPackage.test_package: the result of pytest on the package's tests
test_package(P) == P.tests = "pass"

\* DataPackage.validate: the list of validation errors
validate(P) ==
    LET desc == get_datapackage(P.dir)
        order == resources(P.dir)
    IN  (IF desc.description = "" THEN <<"Missing package description">> ELSE <<>>)
        \o (IF desc.title = "" THEN <<"Missing package title">> ELSE <<>>)
        \o (IF desc.licenses = "" THEN <<"Missing package licence">> ELSE <<>>)
        \o (IF test_package(P) = FALSE THEN <<"Tests failed">> ELSE <<>>)
        \o SelectSeq([i \in DOMAIN order |->
                        IF get_status(P.dir, order[i]) = "red"
                        THEN "Invalid resource" ELSE ""],
                     LAMBDA e : e # "")

\* ------------------------------------------------------- the package at start
NamePool == <<"a", "b", "c", "d", "e", "f">>

Column(name) == [name |-> name, type |-> "string", example |-> 1]

Described(col) ==
    [name |-> col.name, type |-> col.type, description |-> "x", example |-> col.example]

BaseData(n) == [cols |-> [i \in 1 .. n |-> Column(NamePool[i])], rows |-> 1, bytes |-> 0]

BaseSidecar(slug, n) ==
    [name |-> slug, title |-> "x", description |-> "x", keywords |-> "",
     sheet_order |-> 0, fields |-> [i \in 1 .. n |-> Described(Column(NamePool[i]))],
     row_count |-> 1, hash |-> md5(0)]

BaseManifest(version, change_log) ==
    [name |-> "x", identifier |-> "", title |-> "x", description |-> "x",
     keywords |-> "", sources |-> "", contributors |-> "", licenses |-> "x",
     version |-> version,
     custom |-> [change_log |-> change_log, is_geodata |-> FALSE]]

\* a valid package of n resources; resource s has the first s + 1 names as fields
BaseDir(version, change_log, n) ==
    LET files == {ManifestFile} \cup {DataFile(s) : s \in 1 .. n}
                     \cup {SidecarFile(s) : s \in 1 .. n}
    IN  [f \in files |->
            IF f = ManifestFile THEN BaseManifest(version, change_log)
            ELSE IF f.kind = "csv" THEN BaseData(f.slug + 1)
            ELSE BaseSidecar(f.slug, f.slug + 1)]

NoFiles == [f \in {} |-> None]

BasePackage(version, stored, n) ==
    LET change_log == IF stored THEN (version :> "m0") ELSE NoFiles
        dir == BaseDir(version, change_log, n)
    IN  [dir |-> dir,
         versions |-> IF stored THEN (version :> dir) ELSE NoFiles,
         built |-> NoFiles,
         tests |-> "pass"]

Idle == [op |-> "idle", out |-> "none"]

\* ------------------------------------------------------------- handlers
\* A handler maps the package to [pkg, out, steps]: the package it leaves, "return"
\* or "raise", and the calls it made, in order.  env.fail names the call that the
\* environment makes fail (an I/O error, a validator error, a subprocess error);
\* env.copied are the files shutil.copy had copied when store_version failed.
Ok(P, steps) == [pkg |-> P, out |-> "return", steps |-> steps]

Raised(P, steps) == [pkg |-> P, out |-> "raise", steps |-> steps]

\* the call named step comes first in the calls of r
After(step, r) == [r EXCEPT !.steps = <<step>> \o @]

\* statement sequencing: the outcome s of the statements so far, then F on the
\* package they left; an exception ends the handler
Then(s, F(_)) ==
    CHOOSE x \in
        {IF v.out = "raise" THEN v
         ELSE CHOOSE y \in {[pkg |-> r.pkg, out |-> r.out, steps |-> v.steps \o r.steps]
                               : r \in {F(v.pkg)}} : TRUE
            : v \in {s}} : TRUE

\* DataPackage.update_yaml
update_yaml(P, new_values) ==
    Ok([P EXCEPT !.dir[ManifestFile] =
            [k \in DOMAIN @ |-> IF k \in DOMAIN new_values THEN new_values[k] ELSE @[k]]],
       <<"update_yaml">>)

\* DataPackage.store_version: mkdir versions/<version>, then copy every file
store_version(P, env) ==
    LET version == get_datapackage(P.dir).version
        version_dir == IF version \in DOMAIN P.versions THEN P.versions[version] ELSE NoFiles
        copied == IF env.fail = "store_version"
                  THEN env.copied \cap DOMAIN P.dir ELSE DOMAIN P.dir
        written == [f \in copied |-> P.dir[f]] @@ version_dir
        Q == [P EXCEPT !.versions = (version :> written) @@ @]
    IN  IF env.fail = "store_version"
        THEN Raised(Q, <<"store_version">>)
        ELSE Ok(Q, <<"store_version">>)

\* the directory created by DataPackage.build_path
EmptyTree == [json |-> FALSE, files |-> {}, composites |-> FALSE]

build_path(built, version) ==
    IF version \in DOMAIN built THEN built ELSE (version :> EmptyTree) @@ built

\* DataPackage.build_json: datapackage.json is written into the tree
build_json(dir, built) ==
    LET version == get_current_version(dir)
    IN  [build_path(built, version) EXCEPT ![version].json = TRUE]

\* DataPackage.copy_resources
copy_resources(dir, built) ==
    LET version == get_current_version(dir)
        order == resources(dir)
    IN  [build_path(built, version) EXCEPT
            ![version].files = Range(order) \cup @]

\* DataPackage.build_composites
build_composites(dir, built) ==
    LET version == get_current_version(dir)
    IN  [build_path(built, version) EXCEPT ![version].composites = TRUE]

\* one step of build_package for the package in directory dir: the step raises when
\* the environment fails it, and writes into the built tree when it does not
BuildStep(P, step, env, built) ==
    IF env.fail = step THEN Raised(P, <<step>>)
    ELSE Ok([P EXCEPT !.built = built], <<step>>)

\* DataPackage.build_package, for the package in directory dir
build_package(P, dir, env) ==
    Then(Then(Then(Ok([P EXCEPT !.built = build_json(dir, @)], <<"build_json">>),
                   LAMBDA Q : BuildStep(Q, "copy_resources", env,
                                        copy_resources(dir, Q.built))),
              LAMBDA Q : BuildStep(Q, "check_build_integrity", env, Q.built)),
         LAMBDA Q : BuildStep(Q, "build_composites", env, build_composites(dir, Q.built)))

\* build_package on the live package
BuildLive(P, env) == After("build_package", build_package(P, P.dir, env))

\* DataPackage.past_versions
past_versions(P) == DOMAIN P.versions

\* a turn of the loop that builds the snapshot whether or not it was built
BuildVersionAlways(P, v, env) ==
    After("build_package", build_package([P EXCEPT !.built = build_path(@, v)],
                                         P.versions[v], env))

\* lines 865-869: one turn of the loop, for the snapshot of version v
BuildVersion(P, v, env) ==
    CHOOSE x \in
        {IF Q.built[v].json THEN Ok(Q, <<>>)
         ELSE IF ManifestFile \notin DOMAIN Q.versions[v] THEN Raised(Q, <<"DataPackage">>)
         ELSE After("build_package", build_package(Q, Q.versions[v], env))
            : Q \in {[P EXCEPT !.built = build_path(@, v)]}} : TRUE

\* DataPackage.build_missing_previous_versions, over the versions still to visit
RECURSIVE BuildMissing(_, _, _)
BuildMissing(P, todo, env) ==
    IF todo = {} THEN Ok(P, <<>>)
    ELSE LET v == CHOOSE x \in todo : TRUE
         IN  Then(BuildVersion(P, v, env), LAMBDA Q : BuildMissing(Q, todo \ {v}, env))

build_missing_previous_versions(P, env) ==
    After("build_missing_previous_versions", BuildMissing(P, past_versions(P), env))

\* rebuild_all_resources as a handler
RebuildAll(P) ==
    Ok([P EXCEPT !.dir = rebuild_all_resources(P.dir)], <<"rebuild_all_resources">>)

\* render_jekyll, a downstream consumer of the built tree
render_jekyll(P) == Ok(P, <<"render_jekyll">>)

\* the four calls made to publish: lines 744-747 and 428-431
PublishSteps(P, env) ==
    Then(Then(Then(RebuildAll(P),
                   LAMBDA Q : BuildLive(Q, env)),
              LAMBDA Q : build_missing_previous_versions(Q, env)),
         LAMBDA Q : render_jekyll(Q))

\* the tags accepted by the regex of line 713
ValidTags == {"rc", "beta"}

\* "-" in version, and version.split("-")[0]
IsPrerelease(version) == version.pre # ""

StripPrerelease(version) == [version EXCEPT !.pre = ""]

\* a test of the target that lets every version through
BumpAcceptedAny(version, new_semver, current_version_is_prerelease) == TRUE

\* lines 719-723: the targets a bump accepts
BumpAccepted(version, new_semver, current_version_is_prerelease) ==
    \/ semver_is_higher(version, new_semver)
    \/ new_semver = V(0, 1, 0)
    \/ (current_version_is_prerelease /\ version = new_semver)

\* lines 729-733: the change log with the message of the new version
NewChangeLog(change_log, new_semver, update_message) ==
    (new_semver :> update_message) @@ change_log

\* a bump that publishes before it has written the version
BumpWritesPublishFirst(P, new_semver, custom, publish, env) ==
    Then(Then(IF publish THEN PublishSteps(P, env) ELSE Ok(P, <<>>),
              LAMBDA Q : update_yaml(Q, [version |-> new_semver, custom |-> custom])),
         LAMBDA Q : store_version(Q, env))

\* lines 739-747: the writes of a bump, then the build when it publishes
BumpWrites(P, new_semver, custom, publish, env) ==
    Then(Then(update_yaml(P, [version |-> new_semver, custom |-> custom]),
              LAMBDA Q : store_version(Q, env)),
         LAMBDA Q : IF publish THEN PublishSteps(Q, env) ELSE Ok(Q, <<>>))

\* DataPackage.bump_version_to
bump_version_to(P, new_semver_arg, update_message, dry_run, publish, prerelease, env) ==
    LET current == get_current_version(P.dir)
        current_version_is_prerelease == IsPrerelease(current)
        version == StripPrerelease(current)
        new_semver == IF prerelease # ""
                      THEN [new_semver_arg EXCEPT !.pre = prerelease]
                      ELSE new_semver_arg
    IN  IF prerelease # "" /\ prerelease \notin ValidTags THEN Raised(P, <<>>)
        ELSE IF is_valid_semver(new_semver) = FALSE THEN Raised(P, <<>>)
        ELSE IF BumpAccepted(version, new_semver, current_version_is_prerelease)
        THEN IF validate(P) # <<>> THEN Raised(P, <<"validate">>)
             ELSE IF dry_run THEN Ok(P, <<"validate">>)
             ELSE After("validate",
                        BumpWrites(P, new_semver,
                                   [get_datapackage(P.dir).custom EXCEPT !.change_log =
                                        NewChangeLog(@, new_semver, update_message)],
                                   publish, env))
        ELSE Ok(P, <<"print">>)

BumpRules == {"MAJOR", "MINOR", "PATCH", "INITIAL", "AUTO", "STATIC"}

\* a choice of version that bumps on STATIC as it does on AUTO
RuleVersionStaticBumps(current_version, bump_rule, force_static) ==
    IF bump_rule = "INITIAL" THEN current_version
    ELSE bump_version(current_version, Lower(bump_rule))

\* lines 415-423: the version a rule leads to
RuleVersion(current_version, bump_rule, force_static) ==
    IF bump_rule = "INITIAL" THEN current_version
    ELSE IF force_static THEN current_version
    ELSE bump_version(current_version, Lower(bump_rule))

\* lines 425-431: the bump, then the republication of a STATIC call
BumpThenStatic(P, new_version, update_message, dry_run, publish, force_static, env) ==
    Then(bump_version_to(P, new_version, update_message, dry_run, publish, "", env),
         LAMBDA Q : IF force_static /\ publish THEN PublishSteps(Q, env) ELSE Ok(Q, <<>>))

\* lines 415-431, once the rule and the message are known
BumpOnKnownRule(P, bump_rule, update_message, dry_run, publish, force_static, env) ==
    CHOOSE x \in
        {IF new_version = None THEN Raised(P, <<"bump_version">>)
         ELSE BumpThenStatic(P, new_version, update_message, dry_run, publish,
                             force_static, env)
            : new_version \in {RuleVersion(get_current_version(P.dir), bump_rule,
                                           force_static)}} : TRUE

\* a caller that does not read auto_ban
InferredUnbanned(bump_results, bump_rule, update_message, auto_ban) ==
    IF bump_rule \notin {"AUTO", "STATIC"}
    THEN [out |-> "return", rule |-> bump_rule, message |-> update_message, steps |-> <<>>]
    ELSE IF bump_results.out = "raise"
    THEN [out |-> "raise", steps |-> <<"derive_bump_rule_from_change">>]
    ELSE IF bump_results.out = "none"
    THEN [out |-> "none", steps |-> <<"derive_bump_rule_from_change", "print">>]
    ELSE [out |-> "return", rule |-> bump_results.rule,
          message |-> IF update_message = "" THEN bump_results.reason
                      ELSE update_message,
          steps |-> <<"derive_bump_rule_from_change">>]

\* a caller that takes "no change" for a PATCH
InferredBumpsUnchanged(bump_results, bump_rule, update_message, auto_ban) ==
    IF bump_rule \notin {"AUTO", "STATIC"}
    THEN [out |-> "return", rule |-> bump_rule, message |-> update_message, steps |-> <<>>]
    ELSE IF bump_results.out = "raise"
    THEN [out |-> "raise", steps |-> <<"derive_bump_rule_from_change">>]
    ELSE IF bump_results.out = "none"
    THEN [out |-> "return", rule |-> "PATCH", message |-> update_message,
          steps |-> <<"derive_bump_rule_from_change">>]
    ELSE IF bump_results.rule \in auto_ban
    THEN [out |-> "raise", steps |-> <<"derive_bump_rule_from_change">>]
    ELSE [out |-> "return", rule |-> bump_results.rule,
          message |-> IF update_message = "" THEN bump_results.reason
                      ELSE update_message,
          steps |-> <<"derive_bump_rule_from_change">>]

\* lines 402-414: what the inference makes of the rule and the message of the call:
\* "raise", "none" (no change, nothing to bump) or the rule and message to go on with
Inferred(bump_results, bump_rule, update_message, auto_ban) ==
    IF bump_rule \notin {"AUTO", "STATIC"}
    THEN [out |-> "return", rule |-> bump_rule, message |-> update_message, steps |-> <<>>]
    ELSE IF bump_results.out = "raise"
    THEN [out |-> "raise", steps |-> <<"derive_bump_rule_from_change">>]
    ELSE IF bump_results.out = "none"
    THEN [out |-> "none", steps |-> <<"derive_bump_rule_from_change", "print">>]
    ELSE IF bump_results.rule \in auto_ban
    THEN [out |-> "raise", steps |-> <<"derive_bump_rule_from_change">>]
    ELSE [out |-> "return", rule |-> bump_results.rule,
          message |-> IF update_message = "" THEN bump_results.reason
                      ELSE update_message,
          steps |-> <<"derive_bump_rule_from_change">>]

\* DataPackage.bump_version_on_rule
bump_version_on_rule(P, bump_rule, update_message, dry_run, auto_ban, publish, env) ==
    IF bump_rule \notin BumpRules THEN Raised(P, <<>>)
    ELSE CHOOSE x \in
        {IF i.out = "raise" THEN Raised(P, i.steps)
         ELSE IF i.out = "none" THEN Ok(P, i.steps)
         ELSE Then(Ok(P, i.steps),
                   LAMBDA Q : BumpOnKnownRule(Q, i.rule, i.message, dry_run, publish,
                                              bump_rule = "STATIC", env))
            : i \in {Inferred(derive_bump_rule_from_change(P), bump_rule,
                               update_message, auto_ban)}} : TRUE

\* ------------------------------------------------ edits made by the operator
CanEdit == nedits > 0 /\ last = Idle

Edited(dir) ==
    /\ pkg' = [pkg EXCEPT !.dir = dir]
    /\ nedits' = nedits - 1
    /\ last' = Idle
    /\ UNCHANGED <<ncalls, batch>>

LiveSlugs == {s \in Slugs : DataFile(s) \in DOMAIN pkg.dir}

DescribedSlugs == {s \in LiveSlugs : SidecarFile(s) \in DOMAIN pkg.dir}

ManifestValues(key) ==
    IF key \in {"title", "description", "licenses"} THEN {"", "y"} ELSE {"y"}

\* one key of datapackage.yaml is edited by hand
EditManifest(key) ==
    /\ CanEdit
    /\ \E val \in ManifestValues(key) :
         /\ pkg.dir[ManifestFile][key] # val
         /\ Edited([pkg.dir EXCEPT ![ManifestFile][key] = val])

EditName == EditManifest("name")

EditIdentifier == EditManifest("identifier")

EditTitle == EditManifest("title")

EditDescription == EditManifest("description")

EditKeywords == EditManifest("keywords")

EditLicence == EditManifest("licenses")

SidecarValues(key) ==
    IF key \in {"title", "description"} THEN {"", "y"}
    ELSE IF key = "sheet_order" THEN {1} ELSE {"y"}

\* a <resource>.resource.yaml is edited by hand
EditSidecar ==
    /\ CanEdit
    /\ \E s \in DescribedSlugs :
         \E key \in {"title", "description", "keywords", "sheet_order"} :
            \E val \in SidecarValues(key) :
                /\ pkg.dir[SidecarFile(s)][key] # val
                /\ Edited([pkg.dir EXCEPT ![SidecarFile(s)][key] = val])

\* the description of one field is edited by hand
EditFieldDescription ==
    /\ CanEdit
    /\ \E s \in DescribedSlugs :
         \E i \in DOMAIN pkg.dir[SidecarFile(s)].fields :
            \E val \in {"", "y"} :
                /\ pkg.dir[SidecarFile(s)].fields[i].description # val
                /\ Edited([pkg.dir EXCEPT ![SidecarFile(s)].fields[i].description = val])

\* two neighbouring fields of a <resource>.resource.yaml are put in the other order by
\* hand; the data file is not touched
SwapSidecarFields ==
    /\ CanEdit
    /\ \E s \in DescribedSlugs :
         \E i \in 1 .. Len(pkg.dir[SidecarFile(s)].fields) - 1 :
            Edited([pkg.dir EXCEPT ![SidecarFile(s)].fields = SwapAt(@, i)])

FreeNames(cols) == {i \in DOMAIN NamePool : \A k \in DOMAIN cols : cols[k].name # NamePool[i]}

InsertAt(seq, pos, x) == SubSeq(seq, 1, pos - 1) \o <<x>> \o SubSeq(seq, pos, Len(seq))

Rewritten(s, data) == [pkg.dir EXCEPT ![DataFile(s)] = [data EXCEPT !.bytes = @ + 1]]

\* a new column is written into a data file, at any position
InsertColumn ==
    /\ CanEdit
    /\ \E s \in LiveSlugs :
         LET data == pkg.dir[DataFile(s)]
         IN  /\ Len(data.cols) < MaxFields
             /\ FreeNames(data.cols) # {}
             /\ \E pos \in 1 .. Len(data.cols) + 1 :
                  Edited(Rewritten(s, [data EXCEPT !.cols =
                      InsertAt(@, pos, Column(NamePool[Min(FreeNames(data.cols))]))]))

\* a column is dropped from a data file
RemoveColumn ==
    /\ CanEdit
    /\ \E s \in LiveSlugs :
         LET data == pkg.dir[DataFile(s)]
         IN  \E i \in DOMAIN data.cols :
                Edited(Rewritten(s, [data EXCEPT !.cols = RemoveAt(@, i)]))

\* the values of a column change type
RetypeColumn ==
    /\ CanEdit
    /\ \E s \in LiveSlugs :
         LET data == pkg.dir[DataFile(s)]
         IN  \E i \in DOMAIN data.cols :
                Edited(Rewritten(s, [data EXCEPT !.cols[i].type =
                    IF @ = "string" THEN "integer" ELSE "string"]))

\* two neighbouring columns of a data file change places
SwapColumns ==
    /\ CanEdit
    /\ \E s \in LiveSlugs :
         LET data == pkg.dir[DataFile(s)]
         IN  \E i \in 1 .. Len(data.cols) - 1 :
                Edited(Rewritten(s, [data EXCEPT !.cols = SwapAt(@, i)]))

\* rows are added to a data file
AddRows ==
    /\ CanEdit
    /\ \E s \in LiveSlugs :
         Edited(Rewritten(s, [pkg.dir[DataFile(s)] EXCEPT !.rows = @ + 1]))

\* values are corrected in place; the example of the first column may change
EditValues ==
    /\ CanEdit
    /\ \E s \in LiveSlugs :
         LET data == pkg.dir[DataFile(s)]
         IN  \/ Edited(Rewritten(s, data))
             \/ /\ Len(data.cols) > 0
                /\ Edited(Rewritten(s, [data EXCEPT !.cols[1].example = @ + 1]))

\* a new data file is put into the package directory
AddResource ==
    /\ CanEdit
    /\ \E s \in Slugs \ LiveSlugs :
         Edited((DataFile(s) :> [cols |-> <<Column("a")>>, rows |-> 1, bytes |-> 100])
                @@ pkg.dir)

\* a data file and its sidecar are deleted
RemoveResource ==
    /\ CanEdit
    /\ \E s \in LiveSlugs :
         Edited([f \in (DOMAIN pkg.dir) \ {DataFile(s), SidecarFile(s)} |-> pkg.dir[f]])

\* the tests of the package start or stop passing
EditTests ==
    /\ CanEdit
    /\ pkg' = [pkg EXCEPT !.tests = IF @ = "pass" THEN "fail" ELSE "pass"]
    /\ nedits' = nedits - 1
    /\ last' = Idle
    /\ UNCHANGED <<ncalls, batch>>

\* the version in datapackage.yaml is set by hand to a string that is no SemVer
EditVersion ==
    /\ CanEdit
    /\ is_valid_semver(get_datapackage(pkg.dir).version)
    /\ Edited([pkg.dir EXCEPT ![ManifestFile].version = [nums |-> <<1>>, pre |-> ""]])

Edit ==
    \/ EditName
    \/ EditIdentifier
    \/ EditTitle
    \/ EditDescription
    \/ EditKeywords
    \/ EditLicence
    \/ EditSidecar
    \/ EditFieldDescription
    \/ SwapSidecarFields
    \/ InsertColumn
    \/ RemoveColumn
    \/ RetypeColumn
    \/ SwapColumns
    \/ AddRows
    \/ EditValues
    \/ AddResource
    \/ RemoveResource


\* --------------------------------------------------------- program calls
\* dataset update-schema on the package
UpdateSchema ==
    /\ last = Idle
    /\ pkg' = [pkg EXCEPT !.dir = rebuild_all_resources(pkg.dir)]
    /\ last' = [op |-> "update_schema", out |-> "return"]
    /\ UNCHANGED <<nedits, ncalls, batch>>

\* derive_bump_rule_from_change is called on the package
DeriveBumpRule ==
    /\ last = Idle
    /\ last' = [op |-> "derive_bump_rule_from_change",
                out |-> derive_bump_rule_from_change(pkg).out,
                result |-> derive_bump_rule_from_change(pkg)]
    /\ UNCHANGED <<pkg, nedits, ncalls, batch>>

\* the caller takes the result of the call
Acknowledge ==
    /\ last # Idle
    /\ last' = Idle
    /\ UNCHANGED <<pkg, nedits, ncalls, batch>>

\* the inputs the calls are made with
TargetVersions ==
    {V(0, 0, 1), V(0, 1, 0), V(0, 2, 0), V(1, 0, 0), [nums |-> <<1, 0>>, pre |-> ""]}

Messages == {"", "m1"}

AutoBans == {{}, {"MAJOR"}}

FailPoints ==
    {"none", "store_version", "copy_resources", "check_build_integrity", "build_composites"}

\* what the environment does to one call
Env(fail, copied) == [fail |-> fail, copied |-> copied]

\* a bump that the environment lets through, or whose snapshot copy it stops; a dry
\* run writes nothing that the environment could stop
BumpEnvs(dry_run) ==
    IF dry_run THEN {Env("none", {})}
    ELSE {Env("none", {}), Env("store_version", {ManifestFile})}

\* auto_ban is read for the inferred rules only
BansFor(bump_rule) == IF bump_rule \in {"AUTO", "STATIC"} THEN AutoBans ELSE {{}}

\* a build that the environment lets through, or one step of which it fails
BuildEnvs == {Env(f, {}) : f \in FailPoints \ {"store_version"}}

\* the caps on what a run may write
WithinBounds(P) ==
    /\ Cardinality(DOMAIN P.versions) <= MaxSnapshots
    /\ \A k \in DOMAIN get_datapackage(P.dir).version.nums :
          get_datapackage(P.dir).version.nums[k] <= MaxNum

Called(op, args, r) ==
    /\ last = Idle
    /\ ncalls > 0
    /\ \E x \in {r} :
         /\ WithinBounds(x.pkg)
         /\ pkg' = x.pkg
         /\ last' = [op |-> op, args |-> args, out |-> x.out, steps |-> x.steps]
    /\ ncalls' = ncalls - 1
    /\ UNCHANGED <<nedits, batch>>

\* bump_version_to is called on the package
BumpVersionTo ==
    \E new_semver \in TargetVersions, update_message \in Messages,
       dry_run \in BOOLEAN, publish \in BOOLEAN :
      \E env \in BumpEnvs(dry_run) :
        Called("bump_version_to",
               [new_semver |-> new_semver, update_message |-> update_message,
                dry_run |-> dry_run, publish |-> publish],
               bump_version_to(pkg, new_semver, update_message, dry_run, publish,
                               "", env))

\* bump_version_on_rule is called on the package
BumpVersionOnRule ==
    \E bump_rule \in BumpRules \cup {"BOGUS"}, update_message \in Messages,
       dry_run \in BOOLEAN, publish \in BOOLEAN :
      \E auto_ban \in BansFor(bump_rule), env \in BumpEnvs(dry_run) :
        Called("bump_version_on_rule",
               [bump_rule |-> bump_rule, update_message |-> update_message,
                dry_run |-> dry_run, auto_ban |-> auto_ban, publish |-> publish],
               bump_version_on_rule(pkg, bump_rule, update_message, dry_run, auto_ban,
                                    publish, env))

\* build_package is called on the package
BuildPackage ==
    \E env \in BuildEnvs :
        Called("build_package", [none |-> TRUE], BuildLive(pkg, env))

\* build_missing_previous_versions is called on the package
BuildMissingPreviousVersions ==
    \E env \in BuildEnvs :
        Called("build_missing_previous_versions", [none |-> TRUE],
               build_missing_previous_versions(pkg, env))

\* ------------------------------------------------------- the command line
\* valid_packages(): the packages of the dataset directory, in the order of the glob
valid_packages == <<pkg>> \o batch

\* get_relevant_packages: the positions of the packages a command works on, or the
\* ValueError; slug 0 is no slug given, from a working directory that is no package
get_relevant_packages(slug, all) ==
    IF Len(valid_packages) = 1 \/ all
    THEN [out |-> "return", list |-> [i \in DOMAIN valid_packages |-> i]]
    ELSE IF slug \in DOMAIN valid_packages THEN [out |-> "return", list |-> <<slug>>]
    ELSE [out |-> "raise", list |-> <<>>]

\* the outcome of a command: the packages it leaves, how it ended ("return", "raise",
\* or "exit" for sys.exit(1)), the calls it made and the packages it worked on
Outcome(packages, out, steps, processed) ==
    [packages |-> packages, out |-> out, steps |-> steps, processed |-> processed]

\* the package at position i and its calls come first in the outcome of the rest
Begun(i, steps, rest) ==
    [rest EXCEPT !.steps = steps \o @, !.processed = <<i>> \o @]

\* lines 254-257: what publish does to one package
PublishOne(P, env) ==
    Then(Then(RebuildAll(P),
              LAMBDA Q : BuildLive(Q, env)),
         LAMBDA Q : build_missing_previous_versions(Q, env))

\* the loop of publish over the packages todo, from position i on, then render_jekyll
RECURSIVE PublishEach(_, _, _, _)
PublishEach(packages, todo, i, envs) ==
    IF i > Len(todo) THEN Outcome(packages, "return", <<"render_jekyll">>, <<>>)
    ELSE CHOOSE x \in
        {IF r.out = "raise"
         THEN Outcome([packages EXCEPT ![todo[i]] = r.pkg], "raise", r.steps, <<todo[i]>>)
         ELSE Begun(todo[i], r.steps,
                    PublishEach([packages EXCEPT ![todo[i]] = r.pkg], todo, i + 1, envs))
            : r \in {PublishOne(packages[todo[i]], envs[todo[i]])}} : TRUE

\* the command publish
publish(slug, all, envs) ==
    LET packages == get_relevant_packages(slug, all)
    IN  IF packages.out = "raise" THEN Outcome(valid_packages, "raise", <<>>, <<>>)
        ELSE PublishEach(valid_packages, packages.list, 1, envs)

\* the loop of the command validate, with the errors counted so far
RECURSIVE ValidateEach(_, _, _, _)
ValidateEach(packages, todo, i, error_count) ==
    IF i > Len(todo) THEN Outcome(packages, "return", <<>>, <<>>)
    ELSE LET errors == validate(packages[todo[i]])
             count == error_count + Len(errors)
         IN  IF count > 0 THEN Outcome(packages, "exit", <<"validate">>, <<todo[i]>>)
             ELSE Begun(todo[i], <<"validate">>,
                        ValidateEach(packages, todo, i + 1, count))

\* the command validate
validate_command(slug, all) ==
    LET packages == get_relevant_packages(slug, all)
    IN  IF packages.out = "raise" THEN Outcome(valid_packages, "raise", <<>>, <<>>)
        ELSE ValidateEach(valid_packages, packages.list, 1, 0)

\* a command is run on the dataset directory
Commanded(op, args, r) ==
    /\ last = Idle
    /\ ncalls > 0
    /\ \E x \in {r} :
         /\ \A i \in DOMAIN x.packages : WithinBounds(x.packages[i])
         /\ pkg' = Head(x.packages)
         /\ batch' = Tail(x.packages)
         /\ last' = [op |-> op, args |-> args, out |-> x.out, steps |-> x.steps,
                     processed |-> x.processed]
    /\ ncalls' = ncalls - 1
    /\ UNCHANGED nedits

PublishCommand ==
    \E slug \in 0 .. Len(valid_packages), all \in BOOLEAN,
       envs \in [DOMAIN valid_packages -> BuildEnvs] :
        Commanded("publish", [slug |-> slug, all |-> all], publish(slug, all, envs))

ValidateCommand ==
    \E slug \in 0 .. Len(valid_packages), all \in BOOLEAN :
        Commanded("validate", [slug |-> slug, all |-> all], validate_command(slug, all))

\* --------------------------------------------------- the life of one package
Init ==
    /\ \E start \in {<<V(0, 1, 0), FALSE>>, <<V(0, 1, 0), TRUE>>, <<V(1, 0, 0), TRUE>>} :
          pkg = BasePackage(start[1], start[2], 1)
    /\ last = Idle
    /\ nedits = MaxEdits
    /\ ncalls = MaxCalls
    /\ batch = <<>>

Next ==
    \/ EditLicence
    \/ EditValues
    \/ AddRows
    \/ EditTests
    \/ UpdateSchema
    \/ BumpVersionTo
    \/ BumpVersionOnRule
    \/ Acknowledge

Spec == Init /\ [][Next]_vars

\* ------------------------------------------- bump-rule inference on its own
InitDerive ==
    /\ \E version \in {V(0, 1, 0), V(1, 0, 0)} : \E stored \in BOOLEAN :
          pkg = BasePackage(version, stored, 2)
    /\ last = Idle
    /\ nedits = MaxDiffs
    /\ ncalls = 0
    /\ batch = <<>>

NextDerive == Edit \/ UpdateSchema \/ DeriveBumpRule \/ Acknowledge

SpecDerive == InitDerive /\ [][NextDerive]_vars

\* ------------------------------------------ the build and the command line
InitCommands ==
    /\ \E stored \in BOOLEAN : pkg = BasePackage(V(0, 1, 0), stored, 1)
    /\ last = Idle
    /\ nedits = MaxEdits
    /\ ncalls = MaxCalls
    /\ batch = [i \in 1 .. MaxPackages - 1 |-> BasePackage(V(0, 1, 0), TRUE, 1)]

NextCommands ==
    \/ EditLicence
    \/ EditTests
    \/ EditVersion
    \/ EditValues
    \/ BuildPackage
    \/ BuildMissingPreviousVersions
    \/ PublishCommand
    \/ ValidateCommand
    \/ Acknowledge

SpecCommands == InitCommands /\ [][NextCommands]_vars

\* --------------------------------------------- manual bumps in a row
\* a package that was never bumped: no snapshot and an empty change_log
InitBumps ==
    /\ \E version \in {V(0, 1, 0), V(0, 2, 0), Pre(0, 2, 0, "rc")} :
          pkg = BasePackage(version, FALSE, 1)
    /\ last = Idle
    /\ nedits = 0
    /\ ncalls = MaxBumps
    /\ batch = <<>>

NextBumps == BumpVersionTo \/ Acknowledge

SpecBumps == InitBumps /\ [][NextBumps]_vars

\* ------------------------------------------------ claims on the inference
\* the two documents the inference compares, when both can be read
Comparable ==
    /\ get_current_version(pkg.dir) \in DOMAIN pkg.versions
    /\ ManifestFile \in DOMAIN pkg.versions[get_current_version(pkg.dir)]

PreviousData ==
    DelCustom(get_current_datapackage_json(pkg.versions[get_current_version(pkg.dir)]))

CurrentData == DelCustom(get_current_datapackage_json(pkg.dir))

AllDescribed(data) == EmptyDict \notin Range(data.resources)

SameName(data, resource) == {c \in Range(data.resources) : c.name = resource.name}

\* the conditions of rule 2 of the decision list, on one resource of the snapshot
MajorInResource(previous_resource, current_data) ==
    \/ SameName(current_data, previous_resource) = {}
    \/ \E c \in SameName(current_data, previous_resource) :
          \/ c.sheet_order # previous_resource.sheet_order
          \/ Range(FieldNames(previous_resource)) \ Range(FieldNames(c)) # {}
          \/ \E f \in Range(previous_resource.fields), g \in Range(c.fields) :
                f.name = g.name /\ f.type # g.type
          \/ /\ Range(FieldNames(c)) \ Range(FieldNames(previous_resource)) # {}
             /\ Len(c.fields) >= Len(previous_resource.fields)
             /\ SubSeq(FieldNames(c), 1, Len(previous_resource.fields))
                    # FieldNames(previous_resource)

\* at least one MAJOR-triggering difference between the two documents
MajorDifference(previous_data, current_data) ==
    \/ previous_data.name # current_data.name
    \/ previous_data.identifier # current_data.identifier
    \/ previous_data.licenses # current_data.licenses
    \/ \E p \in Range(previous_data.resources) : MajorInResource(p, current_data)

\* the inference has just run on a package of major version >= 1 with a snapshot
DerivedAtMajor1 ==
    /\ last.op = "derive_bump_rule_from_change"
    /\ Comparable
    /\ AllDescribed(PreviousData) /\ AllDescribed(CurrentData)
    /\ get_current_version(pkg.dir).nums[1] >= 1

\* C1: for a package of major version >= 1, whenever at least one MAJOR-triggering
\* difference separates the snapshot from the current state, the inference returns
\* MAJOR, also when a MINOR-triggering difference is present as well.
C1_MajorPreemptsMinor ==
    (DerivedAtMajor1 /\ MajorDifference(PreviousData, CurrentData))
        => (last.out = "return" /\ last.result.rule = "MAJOR")

\* a resource whose fields went from [a,b,c] to [a,c,b], names and types kept
Reordered ==
    \E p \in Range(PreviousData.resources) : \E c \in SameName(CurrentData, p) :
        /\ FieldNames(p) = <<"a", "b", "c">>
        /\ FieldNames(c) = <<"a", "c", "b">>
        /\ NameAndType(p) = NameAndType(c)

\* C2: when a resource of the snapshot has fields [a,b,c] and the current resource has
\* the same fields in the order [a,c,b], the inference returns MAJOR (major >= 1).
C2_ReorderIsMajor ==
    (DerivedAtMajor1 /\ Reordered)
        => (last.out = "return" /\ last.result.rule = "MAJOR")

\* ------------------------------------------------------ claims on the bump
\* a step that is one call of bump_version_to, or of bump_version_on_rule
BumpToStep == last = Idle /\ last'.op = "bump_version_to"

BumpOnRuleStep == last = Idle /\ last'.op = "bump_version_on_rule"

\* the step wrote neither datapackage.yaml nor anything under versions/
Unwritten ==
    /\ pkg'.dir[ManifestFile] = pkg.dir[ManifestFile]
    /\ pkg'.versions = pkg.versions

\* C3: whenever validate() returns errors, bump_version_to raises and leaves
\* datapackage.yaml and versions/ as they were, whatever the target version.
C3_InvalidPackageNeverBumped ==
    [][(BumpToStep /\ validate(pkg) # <<>>) => (last'.out = "raise" /\ Unwritten)]_vars

\* a valid target that is not higher than the current version, is not 0.1.0 and
\* does not finalize a pre-release
NotHigher(dir, new_semver) ==
    LET current == get_current_version(dir)
    IN  /\ is_valid_semver(new_semver)
        /\ ~semver_is_higher(StripPrerelease(current), new_semver)
        /\ new_semver # V(0, 1, 0)
        /\ ~(IsPrerelease(current) /\ StripPrerelease(current) = new_semver)

\* the step is a bump whose precondition fails
PreconditionFails ==
    \/ /\ BumpToStep
       /\ \/ ~is_valid_semver(last'.args.new_semver)
          \/ NotHigher(pkg.dir, last'.args.new_semver)
    \/ /\ BumpOnRuleStep
       /\ last'.args.bump_rule \in {"AUTO", "STATIC"}
       /\ derive_bump_rule_from_change(pkg).out = "return"
       /\ derive_bump_rule_from_change(pkg).rule \in last'.args.auto_ban

\* C4: a bump whose precondition fails (target not higher, invalid semver, inferred
\* rule listed in auto_ban) raises, and writes neither datapackage.yaml nor versions/.
C4_PreconditionFailureIsFatal ==
    [][PreconditionFails => (last'.out = "raise" /\ Unwritten)]_vars

\* versions/<new_semver>/ holds every file of the package, the manifest at new_semver
CompleteSnapshot(new_semver) ==
    /\ pkg'.dir[ManifestFile].version = new_semver
    /\ new_semver \in DOMAIN pkg'.versions
    /\ DOMAIN pkg'.versions[new_semver] = DOMAIN pkg.dir
    /\ pkg'.versions[new_semver][ManifestFile].version = new_semver
    /\ \A f \in (DOMAIN pkg.dir) \ {ManifestFile} :
          pkg'.versions[new_semver][f] = pkg.dir[f]

\* C5: after bump_version_to returns or fails, either datapackage.yaml carries the
\* new version and versions/<new version>/ is a complete snapshot, or neither the
\* metadata nor the snapshots were changed.
C5_BumpAllOrNothing ==
    [][BumpToStep => (Unwritten \/ CompleteSnapshot(last'.args.new_semver))]_vars

\* C6: no operation changes the content of a directory versions/<v>/ that exists.
C6_SnapshotsImmutable ==
    [][\A v \in DOMAIN pkg.versions :
          v \in DOMAIN pkg'.versions /\ pkg'.versions[v] = pkg.versions[v]]_vars

change_log(dir) == get_datapackage(dir).custom.change_log

\* a bump_version_to that was accepted, not a dry run, and returned
BumpedTo(new_semver) ==
    /\ BumpToStep
    /\ last'.args.new_semver = new_semver
    /\ last'.out = "return"
    /\ ~last'.args.dry_run
    /\ ~NotHigher(pkg.dir, new_semver)

\* C7: every successful bump that is not a dry run adds the entry of the new version
\* to change_log, and no bump removes an entry or replaces its message.
C7_ChangeLogAppendOnly ==
    [][/\ \A v \in TargetVersions : BumpedTo(v) => v \in DOMAIN change_log(pkg'.dir)
       /\ (BumpToStep \/ BumpOnRuleStep) =>
             \A v \in DOMAIN change_log(pkg.dir) :
                /\ v \in DOMAIN change_log(pkg'.dir)
                /\ change_log(pkg'.dir)[v] = change_log(pkg.dir)[v]]_vars

\* the calls that build or publish
BuildStepNames ==
    {"rebuild_all_resources", "build_package", "build_missing_previous_versions",
     "render_jekyll"}

\* a step that is one call of a bump with publish set
PublishingBump == (BumpToStep \/ BumpOnRuleStep) /\ last'.args.publish

\* every build step of the call comes after update_yaml and then store_version
WritesBeforeBuilds(steps) ==
    \A i \in DOMAIN steps :
        steps[i] \in BuildStepNames =>
            \E j \in 1 .. i - 1, k \in 1 .. i - 1 :
                j < k /\ steps[j] = "update_yaml" /\ steps[k] = "store_version"

\* C8, as stated: in every bump with publish set, update_yaml and store_version
\* complete before any build step starts, and no build step runs without both.
C8_NoBuildWithoutWrites ==
    [][PublishingBump => WritesBeforeBuilds(last'.steps)]_vars

\* the call was bump_version_on_rule with STATIC and wrote no version
StaticWithoutWrites ==
    /\ BumpOnRuleStep
    /\ last'.args.bump_rule = "STATIC"
    /\ "update_yaml" \notin Range(last'.steps)
    /\ "store_version" \notin Range(last'.steps)

\* C8, amended: in every bump with publish set, every build step comes after
\* update_yaml and store_version, except in a STATIC call that wrote no version,
\* which republishes all the same.
C8_WritesBeforeBuildsUnlessStatic ==
    [][PublishingBump => (WritesBeforeBuilds(last'.steps) \/ StaticWithoutWrites)]_vars

\* a publishing bump_version_to has written the version and then built
C8_Witness ==
    /\ last.op = "bump_version_to"
    /\ last.args.publish
    /\ last.out = "return"
    /\ "store_version" \in Range(last.steps)
    /\ "render_jekyll" \in Range(last.steps)

\* ------------------------------------- claims on the build and the batches
\* validate() returns an error for the package, or its version is no SemVer
Invalid(P) ==
    validate(P) # <<>> \/ ~is_valid_semver(get_datapackage(P.dir).version)

BuildPackageStep == last = Idle /\ last'.op = "build_package"

PublishStep == last = Idle /\ last'.op = "publish"

\* C9: nothing is written into the built tree of a package, by build_package or by
\* the command publish, when validate() returns an error for the package at the
\* time of the build or when its version is not a valid SemVer.
C9_NoBuildWhileInvalid ==
    [][/\ (BuildPackageStep /\ Invalid(pkg)) => pkg'.built = pkg.built
       /\ PublishStep =>
             \A i \in DOMAIN valid_packages :
                Invalid(RebuildAll(valid_packages[i]).pkg)
                    => valid_packages'[i].built = valid_packages[i].built]_vars

\* a command that runs over all the packages of the dataset directory
BatchStep ==
    /\ last = Idle
    /\ last'.op \in {"publish", "validate"}
    /\ last'.args.all

\* C10: a command over several packages works on every one of them, also when the
\* build or the validation of one of them fails.
C10_FailureIsolatedPerPackage ==
    [][BatchStep => Len(last'.processed) = Len(valid_packages)]_vars

\* ------------------------------------- further claims on the inference
\* the inference has just run on a package whose current version has a snapshot
Derived == last.op = "derive_bump_rule_from_change" /\ Comparable

\* C11: with a snapshot, the inference reports "no change" only when the two documents
\* (custom removed) are identical; when no rule returns a severity and the documents
\* differ, it raises.
C11_UnrecognisedDifferenceRaises ==
    Derived =>
        /\ (last.out = "none" => PreviousData = CurrentData)
        /\ ((last.out # "return" /\ PreviousData # CurrentData) => last.out = "raise")

\* the documents differ in a way no rule names, and the inference raised
C11_Witness ==
    /\ Derived
    /\ AllDescribed(PreviousData) /\ AllDescribed(CurrentData)
    /\ PreviousData # CurrentData
    /\ last.result = Raise("ValueError")

\* the inference has just run on a package whose current version has no snapshot
DerivedWithoutSnapshot ==
    /\ last.op = "derive_bump_rule_from_change"
    /\ get_current_version(pkg.dir) \notin DOMAIN pkg.versions

\* C13: without a directory versions/<current version>, the inference returns INITIAL
\* when the current version is 0.1.0 and raises for every other current version.
C13_InitialOnlyAtFirstVersion ==
    DerivedWithoutSnapshot =>
        IF get_current_version(pkg.dir) = V(0, 1, 0)
        THEN last.out = "return" /\ last.result.rule = "INITIAL"
        ELSE last.out = "raise"

\* the inference raised on a package at 1.0.0 without snapshot
C13_Witness ==
    /\ DerivedWithoutSnapshot
    /\ get_current_version(pkg.dir) = V(1, 0, 0)
    /\ last.result = Raise("ValueError")

\* the inference has just run on a package of major version 0 with a snapshot
DerivedAtMajor0 ==
    /\ Derived
    /\ AllDescribed(PreviousData) /\ AllDescribed(CurrentData)
    /\ is_valid_semver(get_current_version(pkg.dir))
    /\ get_current_version(pkg.dir).nums[1] = 0

\* what the decision list returns for the two documents at major version >= 1
AtMajor1 == CompareData(PreviousData, CurrentData, "MAJOR", "MINOR", "PATCH")

\* a result with MAJOR replaced by MINOR
Downgraded(result) ==
    IF result.out = "return" /\ result.rule = "MAJOR"
    THEN [result EXCEPT !.rule = "MINOR"]
    ELSE result

\* C14: at major version 0 the inference never returns MAJOR; every MAJOR-triggering
\* difference (those of rule 2, and a reordering of fields) yields MINOR, and every
\* other result is the one the same documents get at major version >= 1.
C14_MajorIsMinorBelow1 ==
    DerivedAtMajor0 =>
        /\ (last.out = "return" => last.result.rule # "MAJOR")
        /\ (MajorDifference(PreviousData, CurrentData) \/ Reordered)
              => (last.out = "return" /\ last.result.rule = "MINOR")
        /\ last.result = Downgraded(AtMajor1)

\* the fields of a resource as (name, type) pairs, in order
NamesAndTypes(resource) ==
    [i \in DOMAIN resource.fields |-> <<resource.fields[i].name, resource.fields[i].type>>]

\* the two documents are those of the same package with the same resources
SamePackage(previous_data, current_data) ==
    /\ previous_data.name = current_data.name
    /\ previous_data.identifier = current_data.identifier
    /\ previous_data.licenses = current_data.licenses
    /\ [i \in DOMAIN previous_data.resources |-> previous_data.resources[i].name]
         = [i \in DOMAIN current_data.resources |-> current_data.resources[i].name]

\* no structural difference between the resource p of the snapshot and the current c
SameFields(p, c) ==
    p.sheet_order = c.sheet_order /\ NamesAndTypes(p) = NamesAndTypes(c)

\* c is p with new fields after the last field of p
Appended(p, c) ==
    /\ p.sheet_order = c.sheet_order
    /\ Len(c.fields) > Len(p.fields)
    /\ SubSeq(NamesAndTypes(c), 1, Len(p.fields)) = NamesAndTypes(p)
    /\ \A i \in Len(p.fields) + 1 .. Len(c.fields) :
          c.fields[i].name \notin Range(FieldNames(p))

\* c is p with new fields of which one at least stands before a field of p
Inserted(p, c) ==
    /\ p.sheet_order = c.sheet_order
    /\ Len(c.fields) > Len(p.fields)
    /\ SelectSeq(NamesAndTypes(c), LAMBDA x : x[1] \in Range(FieldNames(p)))
         = NamesAndTypes(p)
    /\ SubSeq(FieldNames(c), 1, Len(p.fields)) # FieldNames(p)

\* the resources of the snapshot other than p are structurally unchanged
OthersSame(p) ==
    \A q \in Range(PreviousData.resources) \ {p} :
        SameFields(q, ByName(CurrentData.resources, q.name))

\* the only structural difference: fields appended to one resource of the snapshot
OnlyAppended(p) ==
    /\ SamePackage(PreviousData, CurrentData)
    /\ Appended(p, ByName(CurrentData.resources, p.name))
    /\ OthersSame(p)

\* the only structural difference: fields inserted into one resource, not at the end
OnlyInserted(p) ==
    /\ SamePackage(PreviousData, CurrentData)
    /\ Inserted(p, ByName(CurrentData.resources, p.name))
    /\ OthersSame(p)

NewFieldNames(p) ==
    Range(FieldNames(ByName(CurrentData.resources, p.name))) \ Range(FieldNames(p))

\* the inference has just run on two documents whose resources all have a sidecar
DerivedDescribed ==
    Derived /\ AllDescribed(PreviousData) /\ AllDescribed(CurrentData)

SameStructure ==
    /\ SamePackage(PreviousData, CurrentData)
    /\ \A p \in Range(PreviousData.resources) :
          SameFields(p, ByName(CurrentData.resources, p.name))

\* the resources of the snapshot whose row count, or whose hash, is now another
RowCountsChanged ==
    {p.name : p \in {q \in Range(PreviousData.resources) :
        q.row_count # ByName(CurrentData.resources, q.name).row_count}}

HashesChanged ==
    {p.name : p \in {q \in Range(PreviousData.resources) :
        q.hash # ByName(CurrentData.resources, q.name).hash}}

\* C16: with no MAJOR condition, no new resource and no appended field, the inference
\* returns MINOR when the row count of a resource differs from the snapshot, and PATCH
\* when all row counts are equal and the hash of a resource differs.
C16_RowsAreMinorHashIsPatch ==
    (DerivedDescribed /\ SameStructure) =>
        /\ RowCountsChanged # {} =>
              last.result = Return("MINOR", "Change in data for resource(s)",
                                   RowCountsChanged)
        /\ (RowCountsChanged = {} /\ HashesChanged # {}) =>
              last.result = Return("PATCH", "Minor change in data for resource(s)",
                                   HashesChanged)

\* rows were added to a resource, so its hash changed as well, and the inference ran
C16_Witness ==
    /\ DerivedDescribed
    /\ SameStructure
    /\ RowCountsChanged # {}
    /\ HashesChanged # {}
    /\ last.result.rule = "MINOR"

\* the licence differs and no other MAJOR condition, new resource or new field
\* separates the two documents
OnlyLicenceChanged ==
    /\ PreviousData.licenses # CurrentData.licenses
    /\ SamePackage([PreviousData EXCEPT !.licenses = CurrentData.licenses], CurrentData)
    /\ \A p \in Range(PreviousData.resources) :
          SameFields(p, ByName(CurrentData.resources, p.name))

\* C17: when the licence of the package differs from the snapshot, the inference
\* returns MAJOR (MINOR at major version 0), whatever PATCH-level difference (hash,
\* title, description, example) is present as well.
C17_LicenceIsMajor ==
    (DerivedDescribed /\ OnlyLicenceChanged) =>
        last.result = Return(MajorRule(get_current_version(pkg.dir)), "License changed", {})

\* the licence and the hash of a resource changed at 1.0.0, and the inference ran
C17_Witness ==
    /\ DerivedDescribed
    /\ OnlyLicenceChanged
    /\ HashesChanged # {}
    /\ get_current_version(pkg.dir) = V(1, 0, 0)
    /\ last.result.rule = "MAJOR"

\* ------------------------------------------ further claims on the bump
\* C12: bump_version_on_rule with AUTO, on a package whose documents are those of the
\* snapshot of its current version, leaves the version, the change_log and versions/
\* as they were and triggers no build.
C12_NoChangeNoBump ==
    [][(/\ BumpOnRuleStep
        /\ last'.args.bump_rule = "AUTO"
        /\ Comparable
        /\ PreviousData = CurrentData)
            => /\ Unwritten
               /\ pkg'.built = pkg.built
               /\ Range(last'.steps) \cap (BuildStepNames \cup {"update_yaml", "store_version"})
                      = {}]_vars

\* an AUTO call found no change and returned
C12_Witness ==
    /\ last.op = "bump_version_on_rule"
    /\ last.args.bump_rule = "AUTO"
    /\ last.args.publish
    /\ ~last.args.dry_run
    /\ Comparable
    /\ PreviousData = CurrentData
    /\ last.out = "return"
    /\ last.steps = <<"derive_bump_rule_from_change", "print">>

\* a step that is one call of bump_version_on_rule with AUTO or STATIC on a package
\* whose two documents can be compared
InferringStep ==
    /\ BumpOnRuleStep
    /\ last'.args.bump_rule \in {"AUTO", "STATIC"}
    /\ Comparable
    /\ AllDescribed(PreviousData) /\ AllDescribed(CurrentData)

\* the call raised and wrote no version, no change_log entry and no snapshot
FailedHard == last'.out = "raise" /\ Unwritten

\* C18, as stated: a call with AUTO or STATIC fails hard, and writes nothing, when the
\* change is of a class named in auto_ban: a MAJOR-triggering change with "MAJOR" in
\* auto_ban, at any current version.
C18_BannedClassNeverBumped ==
    [][(/\ InferringStep
        /\ MajorDifference(PreviousData, CurrentData)
        /\ "MAJOR" \in last'.args.auto_ban) => FailedHard]_vars

\* C18, amended: a call with AUTO or STATIC fails hard, and writes nothing, when the
\* rule the inference returns is named in auto_ban; below 1.0.0 a MAJOR-triggering
\* change is returned as MINOR.
C18_BannedRuleNeverBumped ==
    [][(/\ BumpOnRuleStep
        /\ last'.args.bump_rule \in {"AUTO", "STATIC"}
        /\ derive_bump_rule_from_change(pkg).out = "return"
        /\ derive_bump_rule_from_change(pkg).rule \in last'.args.auto_ban)
            => (FailedHard /\ pkg' = pkg)]_vars

\* a call that would have published a MAJOR change was stopped by auto_ban
C18_Witness ==
    /\ last.op = "bump_version_on_rule"
    /\ last.args.bump_rule \in {"AUTO", "STATIC"}
    /\ last.args.auto_ban = {"MAJOR"}
    /\ last.args.publish /\ ~last.args.dry_run
    /\ derive_bump_rule_from_change(pkg).out = "return"
    /\ derive_bump_rule_from_change(pkg).rule = "MAJOR"
    /\ last.out = "raise"
    /\ last.steps = <<"derive_bump_rule_from_change">>

\* a step that is one call of bump_version_on_rule with STATIC
StaticStep == BumpOnRuleStep /\ last'.args.bump_rule = "STATIC"

Republished(steps) == Range(steps) \cap BuildStepNames # {}

\* C19: bump_version_on_rule with STATIC never changes the version number; it
\* republishes only when publish is set and the inference returns a rule; when the
\* inference finds no difference it writes nothing and does not republish.
C19_StaticKeepsVersion ==
    [][StaticStep =>
        /\ get_current_version(pkg'.dir) = get_current_version(pkg.dir)
        /\ Republished(last'.steps) =>
              (last'.args.publish /\ derive_bump_rule_from_change(pkg).out = "return")
        /\ derive_bump_rule_from_change(pkg).out = "none" =>
              (pkg' = pkg /\ ~Republished(last'.steps))]_vars

\* a STATIC call on a changed package at 1.0.0 republished without a new version
C19_Witness ==
    /\ last.op = "bump_version_on_rule"
    /\ last.args.bump_rule = "STATIC"
    /\ last.args.publish
    /\ last.out = "return"
    /\ get_current_version(pkg.dir) = V(1, 0, 0)
    /\ derive_bump_rule_from_change(pkg).out = "return"
    /\ "render_jekyll" \in Range(last.steps)

\* ------------------------------------------- claims on manual targets
\* the step wrote new_semver into datapackage.yaml
Wrote(new_semver) ==
    /\ "update_yaml" \in Range(last'.steps)
    /\ pkg'.dir[ManifestFile].version = new_semver

\* nothing but the target stands between the call and its writes
Unhindered ==
    /\ validate(pkg) = <<>>
    /\ ~last'.args.dry_run

\* the target is higher than the current version, or finalizes its pre-release, or
\* is 0.1.0
Acceptable(dir, new_semver) ==
    /\ is_valid_semver(new_semver)
    /\ ~NotHigher(dir, new_semver)

\* the targets bump_version_to writes are the acceptable ones
AcceptsAcceptable ==
    BumpToStep =>
        /\ Wrote(last'.args.new_semver) => Acceptable(pkg.dir, last'.args.new_semver)
        /\ (Unhindered /\ Acceptable(pkg.dir, last'.args.new_semver))
              => Wrote(last'.args.new_semver)

\* a bump to 0.1.0 is written only when the change_log holds no bump to 0.1.0 yet
ResetOnce ==
    (BumpToStep /\ last'.args.new_semver = V(0, 1, 0) /\ Wrote(V(0, 1, 0)))
        => V(0, 1, 0) \notin DOMAIN change_log(pkg.dir)

\* C20: bump_version_to writes a manual target exactly when it is higher than the
\* current version, or is the current version without its pre-release tag, or is
\* 0.1.0; and over any sequence of bumps the target 0.1.0 is written at most once.
C20_ManualTargets == [][AcceptsAcceptable /\ ResetOnce]_vars

\* ------------------------------------------- the SemVer engine on its own
\* list.sort() on the (major, minor, patch) tuples of ints
TupleLess(x, y) ==
    \/ x[1] < y[1]
    \/ x[1] = y[1] /\ x[2] < y[2]
    \/ x[1] = y[1] /\ x[2] = y[2] /\ x[3] < y[3]

RECURSIVE SortedInsert(_, _)
SortedInsert(x, s) ==
    IF s = <<>> THEN <<x>>
    ELSE IF TupleLess(x, Head(s)) THEN <<x>> \o s
    ELSE <<Head(s)>> \o SortedInsert(x, Tail(s))

RECURSIVE SortTuples(_)
SortTuples(s) == IF s = <<>> THEN <<>> ELSE SortedInsert(Head(s), SortTuples(Tail(s)))

\* the keys of version_map: "1" and "1.2" are version strings without a tag,
\* "latest" is the string with no numeric component
Alias(nums) == [nums |-> nums, pre |-> ""]

Latest == [nums |-> <<>>, pre |-> "latest"]

\* an assignment that keeps the value a key already has
PutIfAbsent(version_map, key, full) ==
    [k \in DOMAIN version_map \cup {key} |->
        IF k \in DOMAIN version_map THEN version_map[k] ELSE full]

\* version_map[key] = full
Put(version_map, key, full) ==
    [k \in DOMAIN version_map \cup {key} |-> IF k = key THEN full ELSE version_map[k]]

\* the loop over the sorted tuples: a later tuple replaces an earlier one
RECURSIVE FillVersionMap(_, _)
FillVersionMap(version_map, split_versions) ==
    IF split_versions = <<>> THEN version_map
    ELSE FillVersionMap(
            Put(Put(version_map, Alias(SubSeq(Head(split_versions), 1, 2)),
                    Alias(Head(split_versions))),
                Alias(SubSeq(Head(split_versions), 1, 1)), Alias(Head(split_versions))),
            Tail(split_versions))

\* x.split(".") gives three parts that int() reads only for a name of three
\* numerals and no tag; include_latest is not read
map_versions_to_latest_major_minor(versions) ==
    IF \E i \in DOMAIN versions : Len(versions[i].nums) # 3 \/ versions[i].pre # ""
    THEN Raise("ValueError")
    ELSE IF versions = <<>> THEN Raise("IndexError")
    ELSE LET split_versions == SortTuples([i \in DOMAIN versions |-> versions[i].nums])
         IN  [out |-> "return",
              version_map |-> Put(FillVersionMap(<<>>, split_versions), Latest,
                                  Alias(split_versions[Len(split_versions)]))]

\* the strings the engine is called with: "a.b.c", "a.b.c-rc" and "1.0"
Tags == {"", "rc"}

VersionStrings ==
    {Pre(a, b, c, tag) : a \in 0 .. MaxPart, b \in 0 .. MaxPart, c \in 0 .. MaxPart,
                         tag \in Tags}
        \cup {[nums |-> <<1, 0>>, pre |-> ""]}

\* the names of the directories <publish_dir>/data/<slug>/*.*.*/
BuiltNames == {V(a, b, c) : a \in 0 .. MaxPart, b \in 0 .. MaxPart, c \in 0 .. MaxPart}
                 \cup {Pre(0, 1, 0, "rc")}

VersionLists == UNION {[1 .. n -> BuiltNames] : n \in 0 .. MaxVersions}

\* bump_version is called
BumpVersion ==
    /\ last = Idle
    /\ \E semver \in VersionStrings, choice \in {"major", "minor", "patch", "bogus"} :
          last' = [op |-> "bump_version", args |-> [semver |-> semver, choice |-> choice],
                   out |-> IF bump_version(semver, choice) = None THEN "raise" ELSE "return",
                   result |-> bump_version(semver, choice)]
    /\ UNCHANGED <<pkg, nedits, ncalls, batch>>

\* semver_is_higher is called on each pair of three strings
SemverIsHigher ==
    /\ last = Idle
    /\ \E a \in VersionStrings, b \in VersionStrings, c \in VersionStrings :
          last' = [op |-> "semver_is_higher", args |-> <<a, b, c>>, out |-> "return",
                   result |-> [p \in (1 .. 3) \X (1 .. 3) |->
                                  semver_is_higher(<<a, b, c>>[p[1]], <<a, b, c>>[p[2]])]]
    /\ UNCHANGED <<pkg, nedits, ncalls, batch>>

\* map_versions_to_latest_major_minor is called, as fill_in_versions calls it
MapVersions ==
    /\ last = Idle
    /\ \E versions \in VersionLists :
          last' = [op |-> "map_versions_to_latest_major_minor", args |-> versions,
                   out |-> map_versions_to_latest_major_minor(versions).out,
                   result |-> map_versions_to_latest_major_minor(versions)]
    /\ UNCHANGED <<pkg, nedits, ncalls, batch>>

InitSemVer ==
    /\ pkg = BasePackage(V(0, 1, 0), FALSE, 1)
    /\ last = Idle
    /\ nedits = 0
    /\ ncalls = 0
    /\ batch = <<>>

NextSemVer == BumpVersion \/ SemverIsHigher \/ MapVersions \/ Acknowledge

SpecSemVer == InitSemVer /\ [][NextSemVer]_vars

\* --------------------------------------------- claims on the SemVer engine
BumpedVersion(choice) ==
    /\ last.op = "bump_version"
    /\ is_valid_semver(last.args.semver)
    /\ last.args.choice = choice

\* C21: for every valid semver string a, with or without a suffix, bump_version(a,
\* "major") is (major+1).0.0, bump_version(a, "minor") is major.(minor+1).0, and
\* bump_version(a, "patch") is a with the patch component one higher and every other
\* component, the suffix included, as in a
C21_BumpChangesOnlyItsPart ==
    /\ BumpedVersion("major") =>
          last.result = V(last.args.semver.nums[1] + 1, 0, 0)
    /\ BumpedVersion("minor") =>
          last.result = V(last.args.semver.nums[1], last.args.semver.nums[2] + 1, 0)
    /\ BumpedVersion("patch") =>
          last.result = [last.args.semver EXCEPT !.nums[3] = @ + 1]

\* semver_is_higher was called on three valid strings; Higher(i, j) is the answer
\* of semver_is_higher(args[i], args[j])
ComparedValid ==
    /\ last.op = "semver_is_higher"
    /\ \A i \in 1 .. 3 : is_valid_semver(last.args[i])

Higher(i, j) == last.result[<<i, j>>]

StrictOrder ==
    \A i \in 1 .. 3, j \in 1 .. 3, k \in 1 .. 3 :
        /\ ~Higher(i, i)
        /\ ~(Higher(i, j) /\ Higher(j, i))
        /\ Higher(i, j) /\ Higher(j, k) => Higher(i, k)
        /\ Higher(i, j) <=> TupleLess(last.args[i].nums, last.args[j].nums)

\* C22 as stated: semver_is_higher is irreflexive, asymmetric, transitive and agrees
\* with the numeric triples, and of two distinct valid strings exactly one is higher
\* than the other
C22_TotalOnDistinctStrings ==
    ComparedValid =>
        /\ StrictOrder
        /\ \A i \in 1 .. 3, j \in 1 .. 3 :
              last.args[i] # last.args[j] => Higher(i, j) \/ Higher(j, i)

\* C22: semver_is_higher is irreflexive, asymmetric, transitive and agrees with the
\* numeric triples; of two valid strings with different (major, minor, patch) exactly
\* one is higher than the other, and of two with the same triple neither is, whatever
\* their suffixes
C22_TotalOnDistinctTriples ==
    ComparedValid =>
        /\ StrictOrder
        /\ \A i \in 1 .. 3, j \in 1 .. 3 :
              IF last.args[i].nums # last.args[j].nums
              THEN Higher(i, j) \/ Higher(j, i)
              ELSE ~Higher(i, j) /\ ~Higher(j, i)

\* two strings that differ in the suffix only, neither higher than the other, and
\* a third that is higher than both
C22_Witness ==
    /\ ComparedValid
    /\ last.args[1] # last.args[2]
    /\ last.args[1].nums = last.args[2].nums
    /\ ~Higher(1, 2) /\ ~Higher(2, 1)
    /\ Higher(1, 3) /\ Higher(2, 3)

\* a full version: three numerals and no suffix
FullVersion(v) == Len(v.nums) = 3 /\ v.pre = ""

\* map_versions_to_latest_major_minor was called on a non-empty list of full versions
MappedFullVersions ==
    /\ last.op = "map_versions_to_latest_major_minor"
    /\ last.args # <<>>
    /\ \A i \in DOMAIN last.args : FullVersion(last.args[i])

\* v is the numerically highest of the versions of the list that start with prefix
HighestWith(v, prefix) ==
    /\ v \in Range(last.args)
    /\ SubSeq(v.nums, 1, Len(prefix)) = prefix
    /\ \A w \in Range(last.args) :
          SubSeq(w.nums, 1, Len(prefix)) = prefix => ~TupleLess(v.nums, w.nums)

\* C23: for a non-empty list of full versions the call returns a map that has a key
\* "MAJOR" and a key "MAJOR.MINOR" for every version of the list, each mapped to the
\* highest full version of the list with that prefix, and "latest" mapped to the
\* highest version of the list
C23_AliasesMapToHighest ==
    MappedFullVersions =>
        /\ last.out = "return"
        /\ \A v \in Range(last.args) : \A n \in 1 .. 2 :
              /\ Alias(SubSeq(v.nums, 1, n)) \in DOMAIN last.result.version_map
              /\ HighestWith(last.result.version_map[Alias(SubSeq(v.nums, 1, n))],
                             SubSeq(v.nums, 1, n))
        /\ Latest \in DOMAIN last.result.version_map
        /\ HighestWith(last.result.version_map[Latest], <<>>)

\* a list in descending order with two versions of one major.minor and a third of
\* another major
C23_Witness ==
    /\ MappedFullVersions
    /\ Len(last.args) = 3
    /\ TupleLess(last.args[3].nums, last.args[2].nums)
    /\ TupleLess(last.args[2].nums, last.args[1].nums)
    /\ SubSeq(last.args[3].nums, 1, 2) = SubSeq(last.args[2].nums, 1, 2)
    /\ last.args[1].nums[1] # last.args[2].nums[1]
    /\ last.result.version_map[Alias(SubSeq(last.args[2].nums, 1, 2))] = last.args[2]
    /\ last.result.version_map[Latest] = last.args[1]

\* ------------------------------------------------------- builds in a row
\* a package at 0.2.0 after the bumps to 0.1.0 and 0.2.0
BumpedPackage ==
    bump_version_to(BasePackage(V(0, 1, 0), TRUE, 1), V(0, 2, 0), "m1", FALSE, FALSE, "",
                    Env("none", {})).pkg

\* packages with no, one and two snapshots, and nothing built yet
InitBuilds ==
    /\ pkg \in {BasePackage(V(0, 1, 0), FALSE, 1), BasePackage(V(0, 1, 0), TRUE, 1),
                BumpedPackage}
    /\ last = Idle
    /\ nedits = 0
    /\ ncalls = MaxBuilds
    /\ batch = <<>>

NextBuilds ==
    \/ BuildPackage
    \/ BuildMissingPreviousVersions
    \/ PublishCommand
    \/ Acknowledge

SpecBuilds == InitBuilds /\ [][NextBuilds]_vars

\* --------------------------------------------------- claims on the builds
BuildMissingStep == last = Idle /\ last'.op = "build_missing_previous_versions"

\* the snapshots of P without a datapackage.json in their built tree
Unbuilt(P) == {v \in DOMAIN P.versions : v \notin DOMAIN P.built \/ ~P.built[v].json}

Count(steps, name) == Cardinality({i \in DOMAIN steps : steps[i] = name})

\* C24: when build_missing_previous_versions returns, every snapshot under versions/
\* has a built tree with datapackage.json, build_package ran once for each snapshot
\* that had none and not at all for the others, whose trees are as they were
C24_MissingVersionsBuiltOnce ==
    [][BuildMissingStep /\ last'.out = "return" =>
          /\ Unbuilt(pkg') = {}
          /\ Count(last'.steps, "build_package") = Cardinality(Unbuilt(pkg))
          /\ \A v \in DOMAIN pkg.versions \ Unbuilt(pkg) : pkg'.built[v] = pkg.built[v]]_vars

\* two snapshots, one built before the call and one built by it
C24_Witness ==
    /\ last.op = "build_missing_previous_versions"
    /\ last.out = "return"
    /\ Cardinality(DOMAIN pkg.versions) = 2
    /\ Count(last.steps, "build_package") = 1
    /\ Unbuilt(pkg) = {}

\* the tree of version v was left by a build_package that failed after build_json
PartialTree(P, v) ==
    /\ v \in DOMAIN P.built
    /\ P.built[v].json
    /\ ~P.built[v].composites

\* the tree of version v holds everything build_package writes
CompleteTree(P, v) ==
    /\ v \in DOMAIN P.built
    /\ P.built[v].json
    /\ P.built[v].composites
    /\ P.built[v].files # {}

\* the versions a full run is to build: the current one and the snapshots
PublishedVersions(P) == {get_current_version(P.dir)} \cup DOMAIN P.versions

\* C28: a full publish run that returns leaves a complete built tree for every
\* version, the current one or a snapshot, whose tree an earlier build_package had
\* left partial
C28_PartialBuildRepaired ==
    [][PublishStep /\ last'.out = "return" =>
          \A v \in PublishedVersions(pkg) :
              PartialTree(pkg, v) => CompleteTree(pkg', v)]_vars

\* the same for the current version alone
C28_CurrentVersionRepaired ==
    [][PublishStep /\ last'.out = "return" =>
          (PartialTree(pkg, get_current_version(pkg.dir))
              => CompleteTree(pkg', get_current_version(pkg.dir)))]_vars

\* ------------------------------------------ claims on the schema regeneration
UpdateSchemaStep == last = Idle /\ last'.op = "update_schema"

\* C27: the sidecar that rebuild_yaml has written for a resource is the one a second
\* rebuild_yaml of the same resource writes when the data file has not changed, and
\* rebuild_yaml leaves every data file, and every file other than the sidecar, as it
\* was
C27_RebuildYamlIdempotent ==
    [][UpdateSchemaStep =>
          /\ \A slug \in LiveSlugs :
                /\ SidecarFile(slug) \in DOMAIN pkg'.dir
                /\ rebuild_yaml(pkg'.dir, slug, is_geodata(pkg'.dir))[SidecarFile(slug)]
                      = pkg'.dir[SidecarFile(slug)]
                /\ rebuild_yaml(pkg.dir, slug, is_geodata(pkg.dir))[DataFile(slug)]
                      = pkg.dir[DataFile(slug)]
                /\ pkg'.dir[DataFile(slug)] = pkg.dir[DataFile(slug)]
          /\ pkg'.dir[ManifestFile] = pkg.dir[ManifestFile]]_vars

\* a rebuild that had something to write: a column without description, a row count
\* other than the one of the first version, and a title unlike the description
C27_Witness ==
    /\ last.op = "update_schema"
    /\ \E slug \in LiveSlugs :
          /\ \E i \in DOMAIN pkg.dir[SidecarFile(slug)].fields :
                pkg.dir[SidecarFile(slug)].fields[i].description = ""
          /\ pkg.dir[SidecarFile(slug)].fields = update_table_schema(
                 pkg.dir[DataFile(slug)], pkg.dir[SidecarFile(slug)].fields)
    /\ \E slug \in LiveSlugs :
          pkg.dir[SidecarFile(slug)].title # pkg.dir[SidecarFile(slug)].description

\* ---------------------------------------------------- the command version
\* a string that is a word: it has no numeric component
Word(text) == [nums |-> <<>>, pre |-> text]

\* str.upper() on the words and tags the command is given
Upper(text) ==
    CASE text = "major" -> "MAJOR"
      [] text = "minor" -> "MINOR"
      [] text = "patch" -> "PATCH"
      [] text = "auto" -> "AUTO"
      [] text = "initial" -> "INITIAL"
      [] text = "static" -> "STATIC"
      [] text = "rc" -> "RC"
      [] OTHER -> text

upper(string) == [string EXCEPT !.pre = Upper(@)]

bump_options == {Word("MAJOR"), Word("MINOR"), Word("PATCH"), Word("AUTO"), Word("INITIAL")}

\* lines 170-179: what version does to one package
VersionOne(P, version_or_rule, message, auto_ban, dry_run, env) ==
    IF version_or_rule = Word("DISPLAY") THEN Ok(P, <<"print">>)
    ELSE IF upper(version_or_rule) \in bump_options
    THEN After("bump_version_on_rule",
               bump_version_on_rule(P, upper(version_or_rule).pre, message, dry_run,
                                    auto_ban, FALSE, env))
    ELSE IF is_valid_semver(version_or_rule)
    THEN After("bump_version_to",
               bump_version_to(P, version_or_rule, message, FALSE, FALSE, "", env))
    ELSE Raised(P, <<>>)

\* the loop of version over the packages todo, from position i on
RECURSIVE VersionEach(_, _, _, _, _, _, _, _)
VersionEach(packages, todo, i, version_or_rule, message, auto_ban, dry_run, envs) ==
    IF i > Len(todo) THEN Outcome(packages, "return", <<>>, <<>>)
    ELSE CHOOSE x \in
        {IF r.out = "raise"
         THEN Outcome([packages EXCEPT ![todo[i]] = r.pkg], "raise", r.steps, <<todo[i]>>)
         ELSE Begun(todo[i], r.steps,
                    VersionEach([packages EXCEPT ![todo[i]] = r.pkg], todo, i + 1,
                                version_or_rule, message, auto_ban, dry_run, envs))
            : r \in {VersionOne(packages[todo[i]], version_or_rule, message, auto_ban,
                                dry_run, envs[todo[i]])}} : TRUE

\* the command version; version_or_rule None is DISPLAY
version(version_or_rule, message, slug, all, auto_ban, dry_run, envs) ==
    LET package == get_relevant_packages(slug, all)
    IN  IF package.out = "raise" THEN Outcome(valid_packages, "raise", <<>>, <<>>)
        ELSE IF version_or_rule \in bump_options /\ version_or_rule # Word("AUTO")
                /\ message = ""
        THEN Outcome(valid_packages, "raise", <<>>, <<>>)
        ELSE VersionEach(valid_packages, package.list, 1, version_or_rule, message,
                         {Upper(x) : x \in auto_ban}, dry_run, envs)

\* what the operator types for version_or_rule
VersionArguments ==
    {Word("DISPLAY"), Word("MAJOR"), Word("MINOR"), Word("PATCH"), Word("AUTO"),
     Word("INITIAL"), Word("STATIC"), Word("major"), Word("initial"), Word("auto"),
     Word("bogus"), V(0, 2, 0), V(0, 1, 0), [nums |-> <<1, 0>>, pre |-> ""]}

VersionCommand ==
    \E version_or_rule \in VersionArguments, message \in Messages,
       slug \in 0 .. Len(valid_packages), all \in BOOLEAN,
       auto_ban \in {{}, {"minor"}}, dry_run \in BOOLEAN :
      \E envs \in [DOMAIN valid_packages -> BumpEnvs(dry_run)] :
        Commanded("version",
                  [version_or_rule |-> version_or_rule, message |-> message,
                   slug |-> slug, all |-> all, auto_ban |-> auto_ban,
                   dry_run |-> dry_run],
                  version(version_or_rule, message, slug, all, auto_ban, dry_run, envs))

\* a package with or without its first snapshot, and a second package beside it
InitVersion ==
    /\ \E stored \in BOOLEAN : pkg = BasePackage(V(0, 1, 0), stored, 1)
    /\ last = Idle
    /\ nedits = MaxEdits
    /\ ncalls = MaxCalls
    /\ batch = [i \in 1 .. MaxPackages - 1 |-> BasePackage(V(0, 1, 0), TRUE, 1)]

NextVersion ==
    \/ EditLicence
    \/ EditValues
    \/ VersionCommand
    \/ BumpVersionOnRule
    \/ Acknowledge

SpecVersion == InitVersion /\ [][NextVersion]_vars

\* ----------------------------------------------- claims on the command version
VersionStep == last = Idle /\ last'.op = "version"

\* the step wrote no datapackage.yaml and nothing under versions/, in any package
NothingWritten ==
    /\ Unwritten
    /\ \A i \in DOMAIN batch :
          /\ batch'[i].dir[ManifestFile] = batch[i].dir[ManifestFile]
          /\ batch'[i].versions = batch[i].versions

\* C25: with --dry-run the command version leaves datapackage.yaml and versions/ as
\* they were, whether version_or_rule is a bump rule or a semver string
C25_DryRunWritesNothing ==
    [][VersionStep /\ last'.args.dry_run => NothingWritten]_vars

\* the same for the bump rules alone, in any letter case
C25_DryRunOnRuleWritesNothing ==
    [][VersionStep /\ last'.args.dry_run /\ upper(last'.args.version_or_rule) \in bump_options
          => NothingWritten]_vars

ExplicitRules == {"MAJOR", "MINOR", "PATCH", "INITIAL"}

\* the command version was given an explicit rule, in some letter case, and no message
VersionOnExplicitRule ==
    /\ VersionStep
    /\ last'.args.version_or_rule.nums = <<>>
    /\ Upper(last'.args.version_or_rule.pre) \in ExplicitRules
    /\ last'.args.message = ""

\* bump_version_on_rule was called with an explicit rule and no message
BumpOnExplicitRule ==
    /\ BumpOnRuleStep
    /\ last'.args.bump_rule \in ExplicitRules
    /\ last'.args.update_message = ""

\* AUTO was run with no message and wrote a new version
AutoWrote ==
    /\ \/ VersionStep /\ upper(last'.args.version_or_rule) = Word("AUTO")
             /\ last'.args.message = ""
       \/ BumpOnRuleStep /\ last'.args.bump_rule = "AUTO"
             /\ last'.args.update_message = ""
    /\ pkg'.dir[ManifestFile].version # pkg.dir[ManifestFile].version

\* C26: a bump on an explicit rule (MAJOR, MINOR, PATCH, INITIAL) with an empty
\* message raises before anything is written, from bump_version_on_rule and from the
\* command version with the rule in any letter case; AUTO goes on with an empty
\* message and records the inferred reason in its place
C26_ExplicitRuleNeedsMessage ==
    [][/\ VersionOnExplicitRule => last'.out = "raise" /\ NothingWritten
       /\ BumpOnExplicitRule => FailedHard
       /\ AutoWrote =>
             change_log(pkg'.dir)[pkg'.dir[ManifestFile].version]
                 = derive_bump_rule_from_change(pkg).reason]_vars

\* the part that holds: the command with the rule in capitals, and AUTO
C26_CapitalRuleNeedsMessage ==
    [][/\ (VersionOnExplicitRule /\ last'.args.version_or_rule \in bump_options)
             => last'.out = "raise" /\ NothingWritten
       /\ AutoWrote =>
             change_log(pkg'.dir)[pkg'.dir[ManifestFile].version]
                 = derive_bump_rule_from_change(pkg).reason]_vars

\* ------------------------------------------------ claims on the bumps, continued
\* a bump that was no dry run, returned, and wrote the version and its snapshot
SuccessfulBump ==
    /\ BumpToStep \/ BumpOnRuleStep
    /\ ~last'.args.dry_run
    /\ last'.out = "return"
    /\ "store_version" \in Range(last'.steps)

\* versions/<current version>/ exists and the inference finds no change
NoChangeState(P) ==
    /\ get_current_version(P.dir) \in DOMAIN P.versions
    /\ derive_bump_rule_from_change(P).out = "none"

\* C29: right after a bump that succeeded and was no dry run, by bump_version_to or
\* bump_version_on_rule, with or without publish, versions/<current version>/ exists
\* and derive_bump_rule_from_change returns no change
C29_BumpLeavesNoChange ==
    [][SuccessfulBump => NoChangeState(pkg')]_vars

\* the same for the bumps that do not publish
C29_UnpublishedBumpLeavesNoChange ==
    [][SuccessfulBump /\ ~last'.args.publish => NoChangeState(pkg')]_vars

\* --------------------------------------------- bumps of both kinds in a row
\* the package at 0.1.0 whose licence was edited after its snapshot was stored
RelicensedPackage ==
    [BasePackage(V(0, 1, 0), TRUE, 1) EXCEPT !.dir[ManifestFile].licenses = "y"]

\* packages that were never bumped, and one with an edit since its snapshot
InitAllBumps ==
    /\ pkg \in {BasePackage(V(0, 1, 0), FALSE, 1), BasePackage(V(0, 2, 0), FALSE, 1),
                BasePackage(Pre(0, 2, 0, "rc"), FALSE, 1), RelicensedPackage}
    /\ last = Idle
    /\ nedits = 0
    /\ ncalls = MaxBumps
    /\ batch = <<>>

NextAllBumps == BumpVersionTo \/ BumpVersionOnRule \/ Acknowledge

SpecAllBumps == InitAllBumps /\ [][NextAllBumps]_vars

\* a bump wrote a version into datapackage.yaml
WroteVersion ==
    /\ BumpToStep \/ BumpOnRuleStep
    /\ "update_yaml" \in Range(last'.steps)

\* C30: the version a bump writes is higher than the one before in its (major,
\* minor, patch), or has the same triple when it finalizes a pre-release, or is
\* 0.1.0; and the version bump_version_on_rule computes and writes for MAJOR, MINOR
\* or PATCH is higher than the version before
C30_BumpsNeverLower ==
    [][/\ WroteVersion =>
             \/ semver_is_higher(get_current_version(pkg.dir), get_current_version(pkg'.dir))
             \/ /\ get_current_version(pkg'.dir).nums = get_current_version(pkg.dir).nums
                /\ IsPrerelease(get_current_version(pkg.dir))
             \/ get_current_version(pkg'.dir) = V(0, 1, 0)
       /\ (BumpOnRuleStep /\ last'.args.bump_rule \in {"MAJOR", "MINOR", "PATCH"}) =>
             /\ is_valid_semver(get_current_version(pkg.dir)) =>
                   semver_is_higher(get_current_version(pkg.dir),
                                    bump_version(get_current_version(pkg.dir),
                                                 Lower(last'.args.bump_rule)))
             /\ "update_yaml" \in Range(last'.steps) =>
                   /\ semver_is_higher(get_current_version(pkg.dir),
                                       get_current_version(pkg'.dir))
                   /\ get_current_version(pkg'.dir)
                         = bump_version(get_current_version(pkg.dir),
                                        Lower(last'.args.bump_rule))]_vars

\* a pre-release was finalized by one bump and PATCH then bumped the final version
C30_Witness ==
    /\ last.op = "bump_version_on_rule"
    /\ last.args.bump_rule = "PATCH"
    /\ "update_yaml" \in Range(last.steps)
    /\ get_current_version(pkg.dir) = V(0, 2, 1)
    /\ V(0, 2, 0) \in DOMAIN change_log(pkg.dir)

====
